---------------------------- MODULE Spec2Model ----------------------------
(***************************************************************************)
(* A model of searchophile: grep (src/grep.py) with its line sources       *)
(* AutoInputFileIterable and StdinIterable, AnsiString, Grep.execute and   *)
(* what it calls; the argument parser of find (src/find.py); the grep      *)
(* stage of search (src/search.py).                                        *)
(*                                                                         *)
(* Bytes are the integers 0..255, a bytes object is a sequence of bytes, a *)
(* str is a sequence of code points.  The bytes used below are             *)
(*   10 LF   13 CR   32 space   40 (   41 )   43 +   45 -   63 ?   65 A     *)
(*   92 \   97 a   98 b   123 {   124 |   125 }   128 a lone continuation  *)
(*   byte (not decodable as UTF-8)   195 169 the two bytes of U+00E9.      *)
(***************************************************************************)
EXTENDS Integers, Sequences, FiniteSets, TLC

-----------------------------------------------------------------------------
(* Sequences                                                               *)

\* s[from:] of Python, from counted from 0
DropFirst(s, n) == SubSeq(s, n + 1, Len(s))

\* s[-n:] of Python for n > 0
LastN(s, n) == IF Len(s) <= n THEN s ELSE SubSeq(s, Len(s) - n + 1, Len(s))

\* bytes.startswith / bytes.endswith
StartsWith(s, p) == Len(p) <= Len(s) /\ SubSeq(s, 1, Len(p)) = p
EndsWith(s, p) == Len(p) <= Len(s) /\ SubSeq(s, Len(s) - Len(p) + 1, Len(s)) = p

\* p occurs in s at the 0-based offset loc
OccursAt(s, p, loc) == loc >= 0 /\ loc + Len(p) <= Len(s) /\ SubSeq(s, loc + 1, loc + Len(p)) = p

\* bytes.find(p, from): the lowest 0-based offset >= from where p occurs, or -1
Find(s, p, from) ==
    IF \E loc \in from..Len(s) : OccursAt(s, p, loc)
    THEN CHOOSE loc \in from..Len(s) :
            OccursAt(s, p, loc) /\ \A k \in from..(loc - 1) : ~OccursAt(s, p, k)
    ELSE -1

\* all sequences over S of length at most n
SeqsUpTo(S, n) == UNION {[1..k -> S] : k \in 0..n}

RECURSIVE Concat(_)
\* the concatenation of a sequence of sequences
Concat(ss) == IF ss = <<>> THEN <<>> ELSE Head(ss) \o Concat(Tail(ss))

-----------------------------------------------------------------------------
(* str and bytes                                                           *)

\* str.lower() on the code points below U+0100
Lower(s) ==
    [i \in 1..Len(s) |->
        IF s[i] >= 65 /\ s[i] <= 90 THEN s[i] + 32
        ELSE IF s[i] >= 192 /\ s[i] <= 222 /\ s[i] # 215 THEN s[i] + 32
        ELSE s[i]]

\* str.encode(): UTF-8 of code points below U+0800
Encode(s) ==
    Concat([i \in 1..Len(s) |->
        IF s[i] < 128 THEN <<s[i]>>
        ELSE <<192 + (s[i] \div 64), 128 + (s[i] % 64)>>])

IsCont(b) == b >= 128 /\ b <= 191

\* the number of bytes of the UTF-8 sequence that starts at b[i], 0 when
\* the bytes at i are not a well-formed sequence
Utf8Len(b, i) ==
    LET n == Len(b)
        c == b[i]
        cont(k) == i + k <= n /\ IsCont(b[i + k])
    IN  IF c < 128 THEN 1
        ELSE IF c >= 194 /\ c <= 223 THEN (IF cont(1) THEN 2 ELSE 0)
        ELSE IF c >= 224 /\ c <= 239
             THEN (IF cont(1) /\ cont(2)
                      /\ (c = 224 => b[i + 1] >= 160)
                      /\ (c = 237 => b[i + 1] <= 159) THEN 3 ELSE 0)
        ELSE IF c >= 240 /\ c <= 244
             THEN (IF cont(1) /\ cont(2) /\ cont(3)
                      /\ (c = 240 => b[i + 1] >= 144)
                      /\ (c = 244 => b[i + 1] <= 143) THEN 4 ELSE 0)
        ELSE 0

\* the code point of the well-formed sequence of k bytes at b[i]
Utf8Point(b, i, k) ==
    IF k = 1 THEN b[i]
    ELSE IF k = 2 THEN (b[i] - 192) * 64 + (b[i + 1] - 128)
    ELSE IF k = 3 THEN (b[i] - 224) * 4096 + (b[i + 1] - 128) * 64 + (b[i + 2] - 128)
    ELSE (b[i] - 240) * 262144 + (b[i + 1] - 128) * 4096
             + (b[i + 2] - 128) * 64 + (b[i + 3] - 128)

RECURSIVE DecodeFrom(_, _)
\* bytes.decode() from b[i] on: <<TRUE, str>>, or <<FALSE, <<>>>> for
\* UnicodeDecodeError
DecodeFrom(b, i) ==
    IF i > Len(b) THEN <<TRUE, <<>>>>
    ELSE LET k == Utf8Len(b, i)
         IN  IF k = 0 THEN <<FALSE, <<>>>>
             ELSE LET rest == DecodeFrom(b, i + k)
                  IN  IF rest[1] THEN <<TRUE, <<Utf8Point(b, i, k)>> \o rest[2]>>
                      ELSE <<FALSE, <<>>>>

Decodable(b) == DecodeFrom(b, 1)[1]
Decode(b) == DecodeFrom(b, 1)[2]

-----------------------------------------------------------------------------
(* Line sources                                                            *)

\* FileIterable.LINE_BYTE_LIMIT is 128 * 1024 in the source; the model keeps
\* the comparison and scales the value down
LINE_BYTE_LIMIT == 3

RECURSIVE ReadLoop(_, _, _, _, _)
\* the while loop of __next__, common to both iterables: read(1) until the
\* rolling suffix `end` equals the delimiter or the stream ends.  Returns
\* the accumulated bytes, the new stream position and whether end of
\* stream was hit
ReadLoop(stream, pos, b, end, newline_str) ==
    IF end = newline_str THEN [b |-> b, pos |-> pos, hit_eof |-> FALSE]
    ELSE IF pos < Len(stream)
    THEN LET last_b == stream[pos + 1]
         IN  ReadLoop(stream, pos + 1,
                      IF Len(b) < LINE_BYTE_LIMIT THEN Append(b, last_b) ELSE b,
                      LastN(Append(end, last_b), Len(newline_str)),
                      newline_str)
    ELSE [b |-> b, pos |-> pos, hit_eof |-> TRUE]

\* AutoInputFileIterable.__next__ ; fp = [pos, open] is self._fp.  `stop` is
\* StopIteration
FileNext(stream, fp, newline_str) ==
    IF fp.open
    THEN LET r == ReadLoop(stream, fp.pos, <<>>, <<>>, newline_str)
         IN  IF r.b # <<>>
             THEN [stop |-> FALSE, line |-> r.b,
                   fp |-> [pos |-> r.pos, open |-> ~r.hit_eof]]
             ELSE [stop |-> TRUE, line |-> <<>>,
                   fp |-> [pos |-> r.pos, open |-> FALSE]]
    ELSE [stop |-> TRUE, line |-> <<>>, fp |-> fp]

\* StdinIterable.__next__ ; fp.open is (not self._eof_detected)
StdinNext(stream, fp, end) ==
    IF ~fp.open THEN [stop |-> TRUE, line |-> <<>>, fp |-> fp]
    ELSE LET r == ReadLoop(stream, fp.pos, <<>>, <<>>, end)
         IN  [stop |-> FALSE, line |-> r.b,
              fp |-> [pos |-> r.pos, open |-> ~r.hit_eof]]

-----------------------------------------------------------------------------
(* Pattern transforms                                                      *)

RECURSIVE Split(_, _)
\* str.split(sep) for a non-empty sep
Split(s, sep) ==
    LET loc == Find(s, sep, 0)
    IN  IF loc < 0 THEN <<s>>
        ELSE <<SubSeq(s, 1, loc)>> \o Split(DropFirst(s, loc + Len(sep)), sep)

\* str.replace(char, new) for a single character
Replace(s, char, new) ==
    Concat([i \in 1..Len(s) |-> IF s[i] = char THEN new ELSE <<s[i]>>])

RECURSIVE Join(_, _)
\* sep.join(pieces)
Join(pieces, sep) ==
    IF Len(pieces) = 0 THEN <<>>
    ELSE IF Len(pieces) = 1 THEN pieces[1]
    ELSE pieces[1] \o sep \o Join(Tail(pieces), sep)

\* one round of the loop of _pattern_escape_invert
EscapeInvertChar(pattern, char) ==
    LET escaped_char == <<92, char>>
        pattern_split == Split(pattern, escaped_char)
        new_pattern_split ==
            [k \in 1..Len(pattern_split) |-> Replace(pattern_split[k], char, escaped_char)]
    IN  Join(new_pattern_split, <<char>>)

RECURSIVE pattern_escape_invert(_, _)
pattern_escape_invert(pattern, chars) ==
    IF chars = <<>> THEN pattern
    ELSE pattern_escape_invert(EscapeInvertChar(pattern, Head(chars)), Tail(chars))

\* the characters '?+{}|()' handed to _pattern_escape_invert
BasicMetaChars == <<63, 43, 123, 125, 124, 40, 41>>

\* re._special_chars_map: ()[]{}?*+-|^$\.&~# and \t \n \r \v \f
ReSpecialChars ==
    {40, 41, 91, 93, 123, 125, 63, 42, 43, 45, 124, 94, 36, 92, 46, 38, 126, 35,
     32, 9, 10, 13, 11, 12}

\* re.escape
ReEscape(s) ==
    Concat([i \in 1..Len(s) |-> IF s[i] \in ReSpecialChars THEN <<92, s[i]>> ELSE <<s[i]>>])

-----------------------------------------------------------------------------
(* Regular expressions (the re module on bytes patterns).                  *)
(* Modelled: literal bytes, a backslash before a non-alphanumeric byte,    *)
(* \a, \b, top-level alternation, groups without alternation inside, a     *)
(* brace that opens no repeat.  re.compile fails on a trailing backslash,  *)
(* an unknown escape, unbalanced parentheses and a repeat operator with    *)
(* nothing to repeat.  Repeats of an atom and character classes are        *)
(* outside the modelled language and are never drawn as inputs.            *)

IsAlnum(c) == (c >= 48 /\ c <= 57) \/ (c >= 65 /\ c <= 90) \/ (c >= 97 /\ c <= 122)

\* \w for bytes patterns
IsWord(c) == IsAlnum(c) \/ c = 95

LowerByte(c) == IF c >= 65 /\ c <= 90 THEN c + 32 ELSE c

RECURSIVE Tokens(_, _)
\* the tokens of the pattern p from p[i] on
Tokens(p, i) ==
    IF i > Len(p) THEN <<>>
    ELSE LET c == p[i]
         IN  IF c = 92
             THEN IF i = Len(p) THEN <<[k |-> "bad", c |-> c]>>
                  ELSE LET d == p[i + 1]
                       IN  (IF d = 98 THEN <<[k |-> "wb", c |-> d]>>
                            ELSE IF d = 97 THEN <<[k |-> "lit", c |-> 7]>>
                            ELSE IF IsAlnum(d) THEN <<[k |-> "bad", c |-> d]>>
                            ELSE <<[k |-> "lit", c |-> d]>>) \o Tokens(p, i + 2)
             ELSE (IF c = 124 THEN <<[k |-> "alt", c |-> c]>>
                   ELSE IF c = 40 THEN <<[k |-> "open", c |-> c]>>
                   ELSE IF c = 41 THEN <<[k |-> "close", c |-> c]>>
                   ELSE IF c \in {42, 43, 63} THEN <<[k |-> "rep", c |-> c]>>
                   ELSE <<[k |-> "lit", c |-> c]>>) \o Tokens(p, i + 1)

RECURSIVE Balanced(_, _, _)
\* parentheses of the tokens t[i..] close what is open, depth currently open
Balanced(t, i, depth) ==
    IF i > Len(t) THEN depth = 0
    ELSE IF t[i].k = "open" THEN Balanced(t, i + 1, depth + 1)
    ELSE IF t[i].k = "close" THEN depth > 0 /\ Balanced(t, i + 1, depth - 1)
    ELSE Balanced(t, i + 1, depth)

\* re.compile(p) succeeds
RegexValid(p) ==
    LET t == Tokens(p, 1)
    IN  /\ \A i \in 1..Len(t) : t[i].k # "bad"
        /\ Balanced(t, 1, 0)
        /\ \A i \in 1..Len(t) :
              t[i].k = "rep" => i > 1 /\ t[i - 1].k \in {"lit", "close"}

RECURSIVE SplitAlt(_)
\* the branches of a token list: the pieces between top-level "alt" tokens,
\* parentheses dropped
SplitAlt(t) ==
    IF \E i \in 1..Len(t) : t[i].k = "alt"
    THEN LET i == CHOOSE i \in 1..Len(t) :
                    t[i].k = "alt" /\ \A j \in 1..(i - 1) : t[j].k # "alt"
         IN  <<SelectSeq(SubSeq(t, 1, i - 1), LAMBDA x : x.k \in {"lit", "wb"})>>
                \o SplitAlt(SubSeq(t, i + 1, Len(t)))
    ELSE <<SelectSeq(t, LAMBDA x : x.k \in {"lit", "wb"})>>

Branches(p) == SplitAlt(Tokens(p, 1))

\* \b at the 0-based offset pos of line
AtWordBoundary(line, pos) ==
    LET before == pos >= 1 /\ IsWord(line[pos])
        after == pos < Len(line) /\ IsWord(line[pos + 1])
    IN  before # after

\* the number of bytes the tokens branch[1..i-1] consume
LitsBefore(branch, i) == Cardinality({h \in 1..(i - 1) : branch[h].k = "lit"})

\* the end offset of the match of branch at offset pos, or -1
MatchBranch(branch, line, pos, ic) ==
    IF \A i \in 1..Len(branch) :
          LET at == pos + LitsBefore(branch, i)
          IN  IF branch[i].k = "wb" THEN AtWordBoundary(line, at)
              ELSE /\ at < Len(line)
                   /\ IF ic THEN LowerByte(line[at + 1]) = LowerByte(branch[i].c)
                      ELSE line[at + 1] = branch[i].c
    THEN pos + LitsBefore(branch, Len(branch) + 1)
    ELSE -1

\* the first of the end offsets `ends`, one per branch and -1 for a branch
\* that does not match, that the engine accepts at offset pos: empty matches
\* are refused when must_advance; or -1
FirstAccepted(ends, pos, must_advance) ==
    IF \E j \in 1..Len(ends) : ends[j] >= 0 /\ (must_advance => ends[j] > pos)
    THEN ends[CHOOSE j \in 1..Len(ends) :
                 /\ ends[j] >= 0 /\ (must_advance => ends[j] > pos)
                 /\ \A h \in 1..(j - 1) :
                       ~(ends[h] >= 0 /\ (must_advance => ends[h] > pos))]
    ELSE -1

\* the end offset of the match the engine reports at offset pos: that of
\* the first branch that matches there; or -1
MatchAt(bs, line, pos, ic, must_advance) ==
    FirstAccepted([j \in 1..Len(bs) |-> MatchBranch(bs[j], line, pos, ic)],
                  pos, must_advance)

\* the span <<start, end>> of the leftmost match in `ends`, the end offset
\* of the match at each offset of pos..n and -1 where there is none; or
\* <<-1, -1>>
FirstMatch(ends, pos, n) ==
    IF \E q \in pos..n : ends[q] >= 0
    THEN LET s == CHOOSE q \in pos..n :
                      ends[q] >= 0 /\ \A h \in pos..(q - 1) : ends[h] < 0
         IN  <<s, ends[s]>>
    ELSE <<-1, -1>>

\* the span of the first match at or after pos, or <<-1, -1>>; only at
\* the offset it starts from does must_advance apply
SearchFrom(bs, line, pos, ic, must_advance) ==
    FirstMatch([q \in pos..Len(line) |->
                    MatchAt(bs, line, q, ic, must_advance /\ q = pos)],
               pos, Len(line))

RECURSIVE FindIterFrom(_, _, _, _, _)
RECURSIVE FindIterNext(_, _, _, _)
\* re.finditer from the offset pos on: the spans <<start, end>> in order
FindIterFrom(bs, line, pos, ic, must_advance) ==
    FindIterNext(SearchFrom(bs, line, pos, ic, must_advance), bs, line, ic)

\* the spans of re.finditer from the match m on; after an empty match
\* the search resumes at its end and must advance
FindIterNext(m, bs, line, ic) ==
    IF m[1] < 0 THEN <<>>
    ELSE <<m>> \o FindIterFrom(bs, line, m[2], ic, m[2] = m[1])

\* re.finditer(pattern, line, flags) as the list of its spans
FindIter(pattern, line, ic) == FindIterFrom(Branches(pattern), line, 0, ic, FALSE)

\* re.fullmatch(pattern, line, flags) is not None
FullMatch(pattern, line, ic) ==
    LET bs == Branches(pattern)
    IN  \E j \in 1..Len(bs) : MatchBranch(bs[j], line, 0, ic) = Len(line)

-----------------------------------------------------------------------------
(* AnsiString: the interval map and its rendering.  A Settings object is   *)
(* [id, str]: id tells two objects of the same string apart, str is its    *)
(* code.  _color_settings is a function from the string indices in use to  *)
(* [apply, remove], two lists of Settings.  The rendered text is a list of *)
(* [esc, v]: a character (esc false, v its code point) or an escape        *)
(* sequence (esc true, v the codes between "\x1b[" and "m")                *)

\* AnsiFormat.RESET.value
RESET == 0

\* data.matching_color: the code of 'ms' in the default GREP_COLORS, bold
\* red, as one code
MatchingColor == 31

\* AnsiString(s)
NewAnsiString(s) == [s |-> s, color_settings |-> <<>>, objects |-> 0]

\* AnsiString._insert_settings_to_dict
InsertSettingsToDict(settings_dict, idx, apply, settings) ==
    LET d == [k \in DOMAIN settings_dict \cup {idx} |->
                 IF k \in DOMAIN settings_dict THEN settings_dict[k]
                 ELSE [apply |-> <<>>, remove |-> <<>>]]
    IN  [d EXCEPT ![idx] = IF apply THEN [@ EXCEPT !.apply = Append(@, settings)]
                           ELSE [@ EXCEPT !.remove = Append(@, settings)]]

\* the second half of apply_formatting: the removal at start_idx + length
\* unless length is None (<<>>)
InsertRemoval(settings_dict, settings, start_idx, length) ==
    IF length = <<>> THEN settings_dict
    ELSE InsertSettingsToDict(settings_dict, start_idx + length[1], FALSE, settings)

\* AnsiString.apply_formatting(code, start_idx, length) on the object a
apply_formatting(a, code, start_idx, length) ==
    [a EXCEPT !.objects = @ + 1,
              !.color_settings =
                  InsertRemoval(InsertSettingsToDict(@, start_idx, TRUE,
                                                     [id |-> a.objects + 1, str |-> code]),
                                [id |-> a.objects + 1, str |-> code], start_idx, length)]

RECURSIVE Sorted(_)
\* sorted(settings_dict) for the set of its keys
Sorted(keys) ==
    IF keys = {} THEN <<>>
    ELSE LET m == CHOOSE m \in keys : \A k \in keys : m <= k
         IN  <<m>> \o Sorted(keys \ {m})

\* list.remove(setting): the list without the first element that is the
\* object `setting`; ok is false when there is none (ValueError)
ListRemove(list, setting) ==
    IF \E i \in 1..Len(list) : list[i] = setting
    THEN [ok |-> TRUE,
          list |-> LET i == CHOOSE i \in 1..Len(list) :
                               list[i] = setting /\ \A h \in 1..(i - 1) : list[h] # setting
                   IN  SubSeq(list, 1, i - 1) \o SubSeq(list, i + 1, Len(list))]
    ELSE [ok |-> FALSE, list |-> list]

RECURSIVE RemoveSettings(_, _)
\* the for loop over settings[SETTINGS_REMOVE_IDX]; r is [ok, list]
RemoveSettings(r, removes) ==
    IF removes = <<>> \/ ~r.ok THEN r
    ELSE RemoveSettings(ListRemove(r.list, Head(removes)), Tail(removes))

\* the characters s[from:to] of the rendered text (0-based, to excluded)
Chars(s, from, to) ==
    [k \in 1..(IF to > from THEN to - from ELSE 0) |-> [esc |-> FALSE, v |-> <<s[from + k]>>]]

\* EscapeFor without the reset before the settings that remain
EscapeForNoReset(current_settings, removed) ==
    [esc |-> TRUE, v |-> [k \in 1..Len(current_settings) |-> current_settings[k].str]]

\* ANSI_ESCAPE_FORMAT filled with the codes of current_settings, RESET
\* first when settings were removed and some remain
EscapeFor(current_settings, removed) ==
    [esc |-> TRUE,
     v |-> (IF removed /\ current_settings # <<>> THEN <<RESET>> ELSE <<>>)
               \o [k \in 1..Len(current_settings) |-> current_settings[k].str]]

\* one round of the loop `for idx in sorted(settings_dict)` of __format__
\* at the key idx, settings = settings_dict[idx] and r the outcome of the
\* removals; st is [out, current_settings, last_idx, status]
RenderStep(s, settings, idx, st, r) ==
    IF ~r.ok THEN [st EXCEPT !.status = "ValueError"]
    ELSE [st EXCEPT !.out = @ \o Chars(s, st.last_idx, idx)
                              \o <<EscapeFor(r.list \o settings.apply,
                                             settings.remove # <<>>)>>,
                    !.current_settings = r.list \o settings.apply,
                    !.last_idx = idx]

RECURSIVE RenderLoop(_, _, _, _)
\* the loop `for idx in sorted(settings_dict)` from the first of keys on:
\* left at an index at or after the end of the string
RenderLoop(s, settings_dict, keys, st) ==
    IF keys = <<>> \/ st.status # "ok" THEN st
    ELSE IF Head(keys) >= Len(s) THEN st
    ELSE RenderLoop(s, settings_dict, Tail(keys),
                    RenderStep(s, settings_dict[Head(keys)], Head(keys), st,
                               RemoveSettings([ok |-> TRUE, list |-> st.current_settings],
                                              settings_dict[Head(keys)].remove)))

\* the end of __format__: the final catch up and ANSI_ESCAPE_CLEAR
RenderEnd(s, st) ==
    IF st.status # "ok" THEN st
    ELSE [st EXCEPT !.out = @ \o Chars(s, st.last_idx, Len(s))
                              \o (IF st.current_settings # <<>>
                                  THEN <<[esc |-> TRUE, v |-> <<>>]>> ELSE <<>>)]

\* what __format__ returns or raises and what it leaves behind, st the
\* outcome of its loop over settings_dict: dict(self._color_settings) is
\* a shallow copy, so the insertion of the format spec at a key that
\* exists appends to the list that self._color_settings holds too
FormatResult(a, spec, settings_dict, st) ==
    [status |-> st.status,
     out |-> st.out,
     a |-> IF spec = <<>> THEN a
           ELSE [a EXCEPT !.objects = @ + 1,
                          !.color_settings = IF 0 \in DOMAIN @ THEN settings_dict ELSE @]]

\* __format__ from `out_str = ''` on, settings_dict as prepared
FormatWith(a, spec, settings_dict) ==
    FormatResult(a, spec, settings_dict,
                 RenderEnd(a.s, RenderLoop(a.s, settings_dict, Sorted(DOMAIN settings_dict),
                                           [out |-> <<>>, current_settings |-> <<>>,
                                            last_idx |-> 0, status |-> "ok"])))

\* AnsiString.__format__(spec) on the object a; spec is <<>> for None or
\* '', else <<code>> for the format spec '[code'
Format(a, spec) ==
    IF spec = <<>> /\ DOMAIN a.color_settings = {}
    THEN [status |-> "ok", out |-> Chars(a.s, 0, Len(a.s)), a |-> a]
    ELSE FormatWith(a, spec,
                    IF spec = <<>> THEN a.color_settings
                    ELSE InsertSettingsToDict(a.color_settings, 0, TRUE,
                                              [id |-> a.objects + 1, str |-> spec[1]]))

-----------------------------------------------------------------------------
(* The Grep object and the running state of Grep.execute                   *)

VARIABLES
    cfg,            \* the Grep object as configured, before execute() and
                    \* between two runs: its attributes, the patterns added, the
                    \* contents of its sources
    self_patterns,  \* Grep._patterns; LineParsingData.patterns is this same list
    pc,             \* the position of execute()
    data,           \* the LineParsingData of this run
    fp,             \* the iterable being read: its stream position and whether
                    \* it is still open (_fp is not None / not _eof_detected)
    print_line,     \* the local print_line of the last _parse_line call
    print_file,     \* the records written to Grep._print_file
    sys_stdout,     \* the records written to sys.stdout
    sys_stderr,     \* the messages written to sys.stderr
    result,         \* what execute() returned or raised, "running" before; for
                    \* the AnsiString under test, what its last call raised
    binary_selected, \* history: the sources in which an undecodable line was selected
    finder_parser,  \* find.py: the FinderParser, the Finder it fills and main's locals
    search_main,    \* search.py: main, the grep process and the printer thread
    out_str,        \* what the last call on the AnsiString under test returned:
                    \* <<>> for None, else the text of __format__ and its spec
    method_calls    \* history: the calls made on the Grep object since the
                    \* first execute() returned

vars == <<cfg, self_patterns, pc, data, fp, print_line, print_file, sys_stdout,
          sys_stderr, result, binary_selected, finder_parser, search_main, out_str,
          method_calls>>

\* FinderParser() and Finder() as constructed: no argument read, the regex
\* type sed, no root directory and no matcher
NewFinderParser ==
    [cliargs |-> <<>>, arg_idx |-> 0, opt_idx |-> 0, current_regex_type |-> "SED",
     current_option |-> "None", root_dirs |-> <<>>, matchers |-> <<>>,
     cwd |-> <<>>]

\* the options on the command line of search.main that decide its course,
\* and, once _parse_args has accepted them, the parsed arguments
NoArgs == [replace_string |-> FALSE, silent |-> FALSE, dry_run |-> FALSE,
           no_grep_tweaks |-> FALSE]

\* search.main not called: no process, no thread, nothing printed.  main
\* is the place of the main thread, find_output whether the file list
\* is less than a command line of xargs and than the buffer and the pipe
\* of grep_process.stdin take ("short") or more ("long"), grep_output the
\* number of lines that grep finds, grep_written the number it has
\* written, stdin and pipe the stdin and the stdout of grep_process, line
\* what readline returned to the printer thread (0: nothing), stdout what
\* the terminal shows
NoSearch ==
    [args |-> NoArgs, main |-> "idle", find_output |-> "short", grep_output |-> 0,
     grep_written |-> 0, stdin |-> "none", pipe |-> <<>>, grep_process |-> "none",
     print_thread |-> "none", line |-> 0, stdout |-> <<>>]

Str(s) == [t |-> "str", s |-> s]
Bytes(s) == [t |-> "bytes", s |-> s]

\* LineParsingData.files: standard input when no file is configured
NumSources == IF cfg.files = <<>> THEN 1 ELSE Len(cfg.files)
IsStdin == cfg.files = <<>>
SourceStream(i) == IF IsStdin THEN cfg.stdin ELSE cfg.files[i].content

\* LineParsingData.set_color_mode
ColorEnabled(color_mode, isatty) ==
    IF color_mode = "ALWAYS" THEN TRUE
    ELSE IF color_mode = "AUTO" THEN isatty
    ELSE FALSE

\* the loop body of _init_line_parsing_data for one pattern
CompilePattern(pattern, c) ==
    LET p1 == IF c.search_type = "FIXED_STRINGS"
              THEN (IF c.ignore_case THEN Lower(pattern) ELSE pattern)
              ELSE IF c.search_type = "BASIC_REGEXP"
              THEN pattern_escape_invert(pattern, BasicMetaChars)
              ELSE pattern
        p2 == IF c.word_regexp
              THEN (IF c.search_type = "FIXED_STRINGS"
                    THEN <<92, 98>> \o ReEscape(p1) \o <<92, 98>>
                    ELSE <<92, 98>> \o p1 \o <<92, 98>>)
              ELSE IF c.line_regexp /\ c.search_type = "FIXED_STRINGS"
              THEN ReEscape(p1)
              ELSE p1
    IN  Bytes(Encode(p2))

\* LineParsingData.fixed_string_parse as _init_line_parsing_data sets it
FixedStringParse(c) ==
    IF c.word_regexp \/ c.line_regexp THEN FALSE ELSE c.search_type = "FIXED_STRINGS"

\* LineParsingData.__init__ followed by _init_line_parsing_data
InitLineParsingData(c) ==
    [fixed_string_parse |-> FixedStringParse(c),
     color_enabled |-> ColorEnabled(c.color_output_mode, c.isatty),
     file |-> 0,
     line |-> <<>>,
     formatted_line |-> [s |-> <<>>, fmt |-> <<>>],
     line_idx |-> 0,
     overflow_detected |-> FALSE,
     binary_detected |-> FALSE,
     num_matches |-> 0]

\* AnsiString(s)
AnsiString(s) == [s |-> s, fmt |-> <<>>]

\* AnsiString.apply_formatting(matching_color, start_idx, length)
ApplyFormatting(fl, start_idx, length) ==
    [fl EXCEPT !.fmt = Append(@, [start |-> start_idx, length |-> length])]

\* the state before execute() of a Grep configured as c with the patterns
\* pats (self._patterns, a list of str)
InitWith(c, pats) ==
    /\ cfg = [c EXCEPT !.patterns = pats]
    /\ self_patterns = [i \in 1..Len(pats) |-> Str(pats[i])]
    /\ pc = "start"
    /\ data = InitLineParsingData(c)
    /\ fp = [pos |-> 0, open |-> FALSE]
    /\ print_line = FALSE
    /\ print_file = <<>>
    /\ sys_stdout = <<>>
    /\ sys_stderr = <<>>
    /\ result = "running"
    /\ binary_selected = {}
    /\ finder_parser = NewFinderParser
    /\ search_main = NoSearch
    /\ out_str = <<>>
    /\ method_calls = 0

\* what _init_line_parsing_data raises on the pattern p, "" when it
\* raises nothing: a pattern that is bytes, left by an earlier execute(),
\* cannot be joined with the str anchors nor split at a str (TypeError)
\* and has no encode (AttributeError)
CompileError(p, c) ==
    IF p.t = "str" THEN ""
    ELSE IF c.search_type = "BASIC_REGEXP" \/ c.word_regexp THEN "TypeError"
    ELSE "AttributeError"

\* data.patterns[i] as the loop body of _init_line_parsing_data leaves it
\* when it raises on the bytes pattern p: lowercased and escaped as far
\* as the body got
CompileInterrupted(p, c) ==
    IF c.search_type # "FIXED_STRINGS" THEN p
    ELSE Bytes(IF c.line_regexp /\ ~c.word_regexp
               THEN ReEscape(IF c.ignore_case THEN [i \in 1..Len(p.s) |-> LowerByte(p.s[i])]
                             ELSE p.s)
               ELSE IF c.ignore_case THEN [i \in 1..Len(p.s) |-> LowerByte(p.s[i])]
               ELSE p.s)

\* Grep.execute up to the for loop.  The patterns of a list are all str,
\* or all bytes after an execute()
Execute ==
    /\ pc = "start"
    /\ IF self_patterns = <<>>
       THEN /\ sys_stderr' = Append(sys_stderr, "No patterns provided")
            /\ result' = "1"
            /\ pc' = "done"
            /\ UNCHANGED <<self_patterns, data>>
       ELSE IF CompileError(self_patterns[1], cfg) # ""
       THEN /\ self_patterns' =
                   [self_patterns EXCEPT ![1] = CompileInterrupted(@, cfg)]
            /\ result' = CompileError(self_patterns[1], cfg)
            /\ pc' = "done"
            /\ UNCHANGED <<sys_stderr, data>>
       ELSE /\ data' = InitLineParsingData(cfg)
            /\ self_patterns' =
                   [i \in 1..Len(self_patterns) |-> CompilePattern(self_patterns[i].s, cfg)]
            /\ pc' = "files"
            /\ UNCHANGED <<sys_stderr, result>>
    /\ UNCHANGED <<cfg, fp, print_line, print_file, sys_stdout, binary_selected>>
    /\ UNCHANGED <<finder_parser, search_main, out_str, method_calls>>

\* SetFile where the EnvironmentError of open() is not caught and ends
\* the run
SetFileRaises ==
    /\ pc = "files"
    /\ data.file < NumSources
    /\ data' = [data EXCEPT !.binary_detected = FALSE, !.line_idx = 0,
                            !.num_matches = 0, !.file = data.file + 1]
    /\ IF IsStdin \/ cfg.files[data.file + 1].exists
       THEN /\ fp' = [pos |-> 0, open |-> TRUE]
            /\ pc' = "next_line"
            /\ UNCHANGED result
       ELSE /\ pc' = "done"
            /\ result' = "EnvironmentError"
            /\ UNCHANGED fp
    /\ UNCHANGED <<cfg, self_patterns, print_line, print_file, sys_stdout, sys_stderr,
                   binary_selected>>
    /\ UNCHANGED <<finder_parser, search_main, out_str, method_calls>>

\* one round of the for loop of execute: LineParsingData.set_file on the
\* next source, and the EnvironmentError of open() caught by execute
SetFile ==
    /\ pc = "files"
    /\ data.file < NumSources
    /\ LET i == data.file + 1
           d == [data EXCEPT !.binary_detected = FALSE, !.line_idx = 0,
                             !.num_matches = 0, !.file = i]
       IN  /\ data' = d
           /\ IF IsStdin \/ cfg.files[i].exists
              THEN /\ fp' = [pos |-> 0, open |-> TRUE]
                   /\ pc' = "next_line"
                   /\ UNCHANGED sys_stderr
              ELSE /\ sys_stderr' = IF cfg.no_messages THEN sys_stderr
                                    ELSE Append(sys_stderr, "EnvironmentError")
                   /\ UNCHANGED <<fp, pc>>
    /\ UNCHANGED <<cfg, self_patterns, print_line, print_file, sys_stdout, result,
                   binary_selected>>
    /\ UNCHANGED <<finder_parser, search_main, out_str, method_calls>>

\* the end of the for loop of execute
Return ==
    /\ pc = "files"
    /\ data.file = NumSources
    /\ pc' = "done"
    /\ result' = "0"
    /\ UNCHANGED <<cfg, self_patterns, data, fp, print_line, print_file, sys_stdout,
                   sys_stderr, binary_selected>>
    /\ UNCHANGED <<finder_parser, search_main, out_str, method_calls>>

\* the status messages LineParsingData.next_line prints at StopIteration
StatusMsgs(d) ==
    (IF d.binary_detected /\ d.num_matches > 0 THEN <<"binary file matches">> ELSE <<>>)
    \o (IF d.overflow_detected THEN <<"line overflow detected">> ELSE <<>>)

\* LineParsingData.next_line after next(self.file_iter) returned `line`
LineRead(d, line, eof, c) ==
    LET found == EndsWith(line, c.end)
        l1 == IF found THEN SubSeq(line, 1, Len(line) - Len(c.end)) ELSE line
        overflow == IF found THEN FALSE ELSE ~eof
        l2 == IF StartsWith(c.end, <<10>>) /\ EndsWith(l1, <<13>>)
              THEN SubSeq(l1, 1, Len(l1) - 1) ELSE l1
        str_line == Decode(l2)
    IN  [d EXCEPT !.line = l2,
                  !.overflow_detected = overflow,
                  !.binary_detected = IF Decodable(l2) THEN @ ELSE TRUE,
                  !.formatted_line =
                      IF ~Decodable(l2) THEN AnsiString(l2)
                      ELSE IF c.ignore_case /\ d.fixed_string_parse
                      THEN AnsiString(Lower(str_line))
                      ELSE AnsiString(str_line)]

\* LineParsingData.next_line, called from the while loop of execute
NextLine ==
    /\ pc \in {"next_line", "line_done"}
    /\ LET d == [data EXCEPT !.line_idx = @ + 1]
           r == IF IsStdin THEN StdinNext(SourceStream(data.file), fp, cfg.end)
                ELSE FileNext(SourceStream(data.file), fp, cfg.end)
       IN  /\ fp' = r.fp
           /\ IF r.stop
              THEN /\ data' = d
                   /\ sys_stdout' =
                          IF StatusMsgs(d) # <<>>
                          THEN Append(sys_stdout,
                                      [filename |-> data.file, status_msgs |-> StatusMsgs(d)])
                          ELSE sys_stdout
                   /\ pc' = "files"
              ELSE /\ data' = LineRead(d, r.line, ~r.fp.open, cfg)
                   /\ UNCHANGED sys_stdout
                   /\ pc' = "parse_line"
    /\ UNCHANGED <<cfg, self_patterns, print_line, print_file, sys_stderr, result,
                   binary_selected>>
    /\ UNCHANGED <<finder_parser, search_main, out_str, method_calls>>

RECURSIVE FixedLocs(_, _, _)
\* the offsets visited by the while loop of the fixed-string branch, for a
\* non-empty pattern
FixedLocs(line, pattern, loc) ==
    IF loc < 0 THEN <<>>
    ELSE <<loc>> \o FixedLocs(line, pattern, Find(line, pattern, loc + Len(pattern)))

RECURSIVE ApplyAll(_, _)
\* apply_formatting for each span <<start, end>> of a list
ApplyAll(fl, spans) ==
    IF spans = <<>> THEN fl
    ELSE ApplyAll(ApplyFormatting(fl, Head(spans)[1], Head(spans)[2] - Head(spans)[1]),
                  Tail(spans))

\* the spans <<start, end>> of the matches of length n at the offsets locs
SpansAt(locs, n) == [k \in 1..Len(locs) |-> <<locs[k], locs[k] + n>>]

\* the fixed-string branch of the loop body of _parse_line, loc the result
\* of data.line.find(pattern)
ParseFixed(st, pattern, d, c, loc) ==
    IF loc >= 0
    THEN IF d.color_enabled /\ ~c.invert_match
         THEN IF Len(pattern) = 0
              THEN [st EXCEPT !.print_line = TRUE, !.status = "hang"]
              ELSE [st EXCEPT !.print_line = TRUE,
                              !.fl = ApplyAll(@, SpansAt(FixedLocs(d.line, pattern, loc),
                                                         Len(pattern)))]
         ELSE [st EXCEPT !.print_line = ~c.invert_match, !.brk = TRUE]
    ELSE IF c.invert_match THEN [st EXCEPT !.print_line = TRUE]
    ELSE st

\* ParseRegex where the loop over the patterns is left at the first
\* match, with color as without
ParseRegexStopsAtMatch(st, spans, d, c) ==
    LET st1 == IF spans # <<>>
               THEN [st EXCEPT !.print_line = ~c.invert_match,
                               !.fl = IF d.color_enabled THEN ApplyAll(@, spans) ELSE @]
               ELSE IF c.invert_match THEN [st EXCEPT !.print_line = TRUE]
               ELSE st
    IN  [st1 EXCEPT !.brk = st1.print_line]

\* the regex branch of the loop body of _parse_line, spans the matches
\* re.fullmatch or re.finditer reported
ParseRegex(st, spans, d, c) ==
    LET st1 == IF spans # <<>>
               THEN [st EXCEPT !.print_line = ~c.invert_match,
                               !.fl = IF d.color_enabled THEN ApplyAll(@, spans) ELSE @]
               ELSE IF c.invert_match THEN [st EXCEPT !.print_line = TRUE]
               ELSE st
    IN  [st1 EXCEPT !.brk = st1.print_line /\ (~d.color_enabled \/ c.invert_match)]

\* the body of the for loop of _parse_line for one pattern.  st is
\* [print_line, fl, brk, status]: the local print_line, data.formatted_line,
\* whether the loop was left by break, and "ok", "re.error" (re raised) or
\* "hang" (the while loop does not end)
ParsePattern(st, pattern, d, c) ==
    IF d.fixed_string_parse
    THEN ParseFixed(st, pattern, d, c, Find(d.line, pattern, 0))
    ELSE IF ~RegexValid(pattern) THEN [st EXCEPT !.status = "re.error"]
    ELSE ParseRegex(st,
                    IF c.line_regexp
                    THEN (IF FullMatch(pattern, d.line, c.ignore_case)
                          THEN <<<<0, Len(d.line)>>>> ELSE <<>>)
                    ELSE FindIter(pattern, d.line, c.ignore_case),
                    d, c)

RECURSIVE ParseLoop(_, _, _, _, _)
\* the for loop of _parse_line from the i-th pattern on
ParseLoop(st, patterns, i, d, c) ==
    IF i > Len(patterns) \/ st.brk \/ st.status # "ok" THEN st
    ELSE ParseLoop(ParsePattern(st, patterns[i].s, d, c), patterns, i + 1, d, c)

\* the record LineParsingData.match_found prints: line_format filled with
\* the source, the number and the formatted line
OutputRecord(d, c) ==
    [filename |-> IF c.output_file_name THEN <<d.file>> ELSE <<>>,
     num |-> IF c.output_line_numbers THEN <<d.line_idx + 1>> ELSE <<>>,
     line |-> d.formatted_line]

\* print(..., file=file) in match_found raises BrokenPipeError
SinkBroken == cfg.sink_records >= 0 /\ Len(print_file) >= cfg.sink_records

RECURSIVE ApplyHighlights(_, _, _)
\* the AnsiString that data.formatted_line is after the calls of
\* apply_formatting recorded in fmt[k..], each with data.matching_color
ApplyHighlights(a, fmt, k) ==
    IF k > Len(fmt) THEN a
    ELSE ApplyHighlights(apply_formatting(a, MatchingColor, fmt[k].start, <<fmt[k].length>>),
                         fmt, k + 1)

\* line_format.format(**line_data_dict) in match_found raises ValueError:
\* the render of the field {line} does
RenderRaises(fl) ==
    Format(ApplyHighlights(NewAnsiString(fl.s), fl.fmt, 1), <<>>).status # "ok"

\* ParseLineEnd where the record of a selected line is put before the
\* records emitted so far
ParseLineEndNewestFirst(st) ==
    LET d == [data EXCEPT !.formatted_line = st.fl]
    IN  IF st.status # "ok"
        THEN /\ pc' = "done"
             /\ result' = st.status
             /\ data' = d
             /\ UNCHANGED <<print_line, print_file, binary_selected>>
        ELSE IF st.print_line /\ ~d.binary_detected /\ RenderRaises(st.fl)
        THEN /\ pc' = "done"
             /\ result' = "ValueError"
             /\ data' = [d EXCEPT !.num_matches = @ + 1]
             /\ UNCHANGED <<print_line, print_file, binary_selected>>
        ELSE IF st.print_line /\ ~d.binary_detected /\ SinkBroken
        THEN /\ pc' = "done"
             /\ result' = "BrokenPipeError"
             /\ data' = [d EXCEPT !.num_matches = @ + 1]
             /\ UNCHANGED <<print_line, print_file, binary_selected>>
        ELSE /\ pc' = "line_done"
             /\ print_line' = st.print_line
             /\ UNCHANGED result
             /\ IF st.print_line
                THEN /\ data' = [d EXCEPT !.num_matches = @ + 1]
                     /\ print_file' = IF ~d.binary_detected
                                      THEN <<OutputRecord(d, cfg)>> \o print_file
                                      ELSE print_file
                     /\ binary_selected' = IF Decodable(d.line) THEN binary_selected
                                           ELSE binary_selected \cup {d.file}
                ELSE /\ data' = d
                     /\ UNCHANGED <<print_file, binary_selected>>

\* the end of Grep._parse_line, st the outcome of its for loop: the
\* exception or the endless loop ends the run, a selected line goes to
\* LineParsingData.match_found, where the render of the line and then
\* the print may raise; nothing in _parse_line or execute catches what is
\* raised here
ParseLineEnd(st) ==
    LET d == [data EXCEPT !.formatted_line = st.fl]
    IN  IF st.status # "ok"
        THEN /\ pc' = "done"
             /\ result' = st.status
             /\ data' = d
             /\ UNCHANGED <<print_line, print_file, binary_selected>>
        ELSE IF st.print_line /\ ~d.binary_detected /\ RenderRaises(st.fl)
        THEN /\ pc' = "done"
             /\ result' = "ValueError"
             /\ data' = [d EXCEPT !.num_matches = @ + 1]
             /\ UNCHANGED <<print_line, print_file, binary_selected>>
        ELSE IF st.print_line /\ ~d.binary_detected /\ SinkBroken
        THEN /\ pc' = "done"
             /\ result' = "BrokenPipeError"
             /\ data' = [d EXCEPT !.num_matches = @ + 1]
             /\ UNCHANGED <<print_line, print_file, binary_selected>>
        ELSE /\ pc' = "line_done"
             /\ print_line' = st.print_line
             /\ UNCHANGED result
             /\ IF st.print_line
                THEN /\ data' = [d EXCEPT !.num_matches = @ + 1]
                     /\ print_file' = IF ~d.binary_detected
                                      THEN Append(print_file, OutputRecord(d, cfg))
                                      ELSE print_file
                     /\ binary_selected' = IF Decodable(d.line) THEN binary_selected
                                           ELSE binary_selected \cup {d.file}
                ELSE /\ data' = d
                     /\ UNCHANGED <<print_file, binary_selected>>

\* Grep._parse_line with the LineParsingData.match_found it calls
ParseLine ==
    /\ pc = "parse_line"
    /\ ParseLineEnd(ParseLoop([print_line |-> FALSE, fl |-> data.formatted_line,
                               brk |-> FALSE, status |-> "ok"],
                              self_patterns, 1, data, cfg))
    /\ UNCHANGED <<cfg, self_patterns, fp, sys_stdout, sys_stderr>>
    /\ UNCHANGED <<finder_parser, search_main, out_str, method_calls>>

Next == Execute \/ SetFile \/ Return \/ NextLine \/ ParseLine

-----------------------------------------------------------------------------
(* Configurations and inputs                                               *)

\* Grep.reset, with the environment of the run: the files, standard
\* input, whether the output is a terminal, and sink_records, the number
\* of records print_file takes before its reader is gone (-1: it takes
\* them all)
DefaultCfg ==
    [patterns |-> <<>>, files |-> <<>>, stdin |-> <<>>, search_type |-> "BASIC_REGEXP",
     ignore_case |-> FALSE, word_regexp |-> FALSE, line_regexp |-> FALSE,
     no_messages |-> FALSE, invert_match |-> FALSE, output_line_numbers |-> FALSE,
     output_file_name |-> FALSE, end |-> <<10>>, color_output_mode |-> "AUTO",
     isatty |-> FALSE, sink_records |-> -1]

File(content) == [exists |-> TRUE, content |-> content]

SearchTypes == {"FIXED_STRINGS", "BASIC_REGEXP", "EXTENDED_REGEXP"}

MaxStreamLen == 5
MaxLines == 2
MaxPatterns == 2

\* the bytes of the streams: a, CR, LF and a byte that does not decode
StreamBytes == {97, 13, 10, 128}
Streams == SeqsUpTo(StreamBytes, MaxStreamLen)

\* the delimiters: LF and CR LF
Delimiters == {<<10>>, <<13, 10>>}

\* the sources of a run: one file, a file followed by a short one, or
\* standard input
SourceCfgs ==
    {[DefaultCfg EXCEPT !.files = <<File(s)>>] : s \in Streams}
    \cup {[DefaultCfg EXCEPT !.files = <<File(s), File(t)>>] :
             s \in Streams, t \in {<<>>, <<97, 10>>}}
    \cup {[DefaultCfg EXCEPT !.stdin = s] : s \in Streams}

\* the sources above, read with either delimiter for the lines that hold
\* the pattern "a", file names and line numbers printed
Init ==
    \E c \in SourceCfgs, e \in Delimiters :
        InitWith([c EXCEPT !.end = e, !.output_line_numbers = TRUE,
                           !.output_file_name = TRUE, !.color_output_mode = "NEVER"],
                 <<<<97>>>>)

Spec == Init /\ [][Next]_vars

\* a file of n lines, each ended by LF
LinesFile(lines) == File(Concat([i \in 1..Len(lines) |-> lines[i] \o <<10>>]))

FilesOfLines(pool) ==
    {<<LinesFile(ls)>> : ls \in UNION {[1..n -> pool] : n \in 1..MaxLines}}

PatternLists(pool) == UNION {[1..n -> pool] : n \in 1..MaxPatterns}

\* invert_match with lists of the patterns a, b, ab in every dialect, with
\* and without anchors and color, over the lines a, b, ab, "a b", c
InitInvert ==
    \E st \in SearchTypes, w \in BOOLEAN, l \in BOOLEAN, col \in {"NEVER", "ALWAYS"},
       pats \in PatternLists({<<97>>, <<98>>, <<97, 98>>}),
       fs \in FilesOfLines({<<97>>, <<98>>, <<97, 98>>, <<97, 32, 98>>, <<99>>}) :
        InitWith([DefaultCfg EXCEPT !.files = fs, !.search_type = st, !.word_regexp = w,
                                    !.line_regexp = l, !.invert_match = TRUE,
                                    !.color_output_mode = col],
                 pats)

SpecInvert == InitInvert /\ [][Next]_vars

\* fixed strings without anchors: the patterns a, A, b, ab over the lines
\* a, A, ab, aB, b, with and without ignore_case and color
InitFixed ==
    \E ic \in BOOLEAN, col \in {"NEVER", "ALWAYS"},
       pats \in PatternLists({<<97>>, <<65>>, <<98>>, <<97, 98>>}),
       fs \in FilesOfLines({<<97>>, <<65>>, <<97, 98>>, <<97, 66>>, <<98>>}) :
        InitWith([DefaultCfg EXCEPT !.files = fs, !.search_type = "FIXED_STRINGS",
                                    !.ignore_case = ic, !.color_output_mode = col],
                 pats)

SpecFixed == InitFixed /\ [][Next]_vars

\* pattern lists over a, ( and \( in every dialect and mode, over files of
\* no line or of lines a and b
InitPatternError ==
    \E st \in SearchTypes, w \in BOOLEAN, l \in BOOLEAN, inv \in BOOLEAN,
       col \in {"NEVER", "ALWAYS"},
       pats \in PatternLists({<<97>>, <<40>>, <<92, 40>>}),
       fs \in FilesOfLines({<<97>>, <<98>>}) \cup {<<File(<<>>)>>} :
        InitWith([DefaultCfg EXCEPT !.files = fs, !.search_type = st, !.word_regexp = w,
                                    !.line_regexp = l, !.invert_match = inv,
                                    !.color_output_mode = col],
                 pats)

SpecPatternError == InitPatternError /\ [][Next]_vars

\* one or two files of at most MaxLines lines each, every line ended by LF
\* and of 0, 1 or 4 bytes of content (none at the cap), searched for "a"
InitSummary ==
    \E fs \in UNION {[1..n -> {LinesFile(ls) :
                                  ls \in UNION {[1..k -> {<<>>, <<97>>, <<97, 97, 97, 97>>}] :
                                                   k \in 0..MaxLines}}] : n \in 1..2} :
        InitWith([DefaultCfg EXCEPT !.files = fs, !.output_line_numbers = TRUE,
                                    !.output_file_name = TRUE,
                                    !.color_output_mode = "NEVER"],
                 <<<<97>>>>)

SpecSummary == InitSummary /\ [][Next]_vars

\* the anchors: lists of the patterns a, ab, a|b and a\|b in every dialect,
\* with and without word_regexp, line_regexp and ignore_case, over the
\* lines a, A, ab, "a " and ba
InitAnchors ==
    \E st \in SearchTypes, w \in BOOLEAN, l \in BOOLEAN, ic \in BOOLEAN,
       pats \in PatternLists({<<97>>, <<97, 98>>, <<97, 124, 98>>, <<97, 92, 124, 98>>}),
       fs \in FilesOfLines({<<97>>, <<65>>, <<97, 98>>, <<97, 32>>, <<98, 97>>}) :
        InitWith([DefaultCfg EXCEPT !.files = fs, !.search_type = st, !.word_regexp = w,
                                    !.line_regexp = l, !.ignore_case = ic,
                                    !.color_output_mode = "NEVER"],
                 pats)

SpecAnchors == InitAnchors /\ [][Next]_vars

\* one or two files of the lines a and b searched for "a", with and
\* without invert_match, written to a sink that takes every record, none
\* or one
InitSink ==
    \E inv \in BOOLEAN, n \in {-1, 0, 1},
       fs \in UNION {[1..k -> {LinesFile(ls) :
                                  ls \in UNION {[1..j -> {<<97>>, <<98>>}] :
                                                   j \in 1..MaxLines}}] : k \in 1..2} :
        InitWith([DefaultCfg EXCEPT !.files = fs, !.invert_match = inv,
                                    !.sink_records = n, !.color_output_mode = "NEVER"],
                 <<<<97>>>>)

SpecSink == InitSink /\ [][Next]_vars

MaxFiles == 3

\* a path that open() refuses
MissingFile == [exists |-> FALSE, content |-> <<>>]

\* up to MaxFiles sources, each one missing, empty, or of the lines a; b;
\* a and a, searched for "a" with file names printed, with and without
\* no_messages
InitOpen ==
    \E nm \in BOOLEAN,
       fs \in UNION {[1..k -> {MissingFile, File(<<>>), File(<<97, 10>>), File(<<98, 10>>),
                               File(<<97, 10, 97, 10>>)}] : k \in 1..MaxFiles} :
        InitWith([DefaultCfg EXCEPT !.files = fs, !.no_messages = nm,
                                    !.output_file_name = TRUE,
                                    !.color_output_mode = "NEVER"],
                 <<<<97>>>>)

SpecOpen == InitOpen /\ [][Next]_vars

\* scanning of the pattern list: lists of the patterns a, aa, b, ( and \(
\* in every dialect, with and without color and ignore_case, over the
\* lines aa, ab and A
InitScan ==
    \E st \in SearchTypes, ic \in BOOLEAN, col \in {"NEVER", "ALWAYS"},
       pats \in PatternLists({<<97>>, <<97, 97>>, <<98>>, <<40>>, <<92, 40>>}),
       fs \in FilesOfLines({<<97, 97>>, <<97, 98>>, <<65>>}) :
        InitWith([DefaultCfg EXCEPT !.files = fs, !.search_type = st, !.ignore_case = ic,
                                    !.color_output_mode = col],
                 pats)

SpecScan == InitScan /\ [][Next]_vars

MaxMethodCalls == 3
AddedPatterns == {<<97>>, <<98>>}
AddedFiles == {File(<<97, 10, 98, 10>>), File(<<97, 98, 10>>)}

\* what a call on the Grep object between two runs leaves alone
BetweenRuns ==
    /\ pc = "done"
    /\ result # "hang"
    /\ method_calls < MaxMethodCalls
    /\ method_calls' = method_calls + 1
    /\ UNCHANGED <<data, fp, print_line, print_file, sys_stdout, sys_stderr,
                   binary_selected, finder_parser, search_main, out_str>>

\* the caller, after execute() returned or raised, calls execute() on the
\* same object once more
ExecuteAgain ==
    /\ BetweenRuns
    /\ pc' = "start"
    /\ result' = "running"
    /\ UNCHANGED <<cfg, self_patterns>>

\* Grep.clear_patterns
clear_patterns ==
    /\ BetweenRuns
    /\ self_patterns' = <<>>
    /\ cfg' = [cfg EXCEPT !.patterns = <<>>]
    /\ UNCHANGED <<pc, result>>

\* Grep.add_patterns with a str or a list of str
add_patterns ==
    /\ BetweenRuns
    /\ \E pattern_or_patterns \in PatternLists(AddedPatterns) :
           /\ Len(self_patterns) + Len(pattern_or_patterns) <= MaxPatterns
           /\ self_patterns' = self_patterns \o [i \in 1..Len(pattern_or_patterns) |->
                                                     Str(pattern_or_patterns[i])]
           /\ cfg' = [cfg EXCEPT !.patterns = @ \o pattern_or_patterns]
    /\ UNCHANGED <<pc, result>>

\* Grep.clear_files
clear_files ==
    /\ BetweenRuns
    /\ cfg' = [cfg EXCEPT !.files = <<>>]
    /\ UNCHANGED <<pc, result, self_patterns>>

\* Grep.add_files with the path of a file
add_files ==
    /\ BetweenRuns
    /\ Len(cfg.files) < MaxFiles
    /\ \E file_or_files \in AddedFiles : cfg' = [cfg EXCEPT !.files = Append(@, file_or_files)]
    /\ UNCHANGED <<pc, result, self_patterns>>

\* Grep.reset: no pattern, no file, every attribute at its default; the
\* standard input, the terminal and the sink are not the object's
reset ==
    /\ BetweenRuns
    /\ self_patterns' = <<>>
    /\ cfg' = [DefaultCfg EXCEPT !.stdin = cfg.stdin, !.isatty = cfg.isatty,
                                 !.sink_records = cfg.sink_records]
    /\ UNCHANGED <<pc, result>>

\* the property setters of Grep
SetAttribute ==
    /\ BetweenRuns
    /\ \/ \E search_type \in SearchTypes : cfg' = [cfg EXCEPT !.search_type = search_type]
       \/ \E ignore_case \in BOOLEAN : cfg' = [cfg EXCEPT !.ignore_case = ignore_case]
       \/ \E word_regexp \in BOOLEAN : cfg' = [cfg EXCEPT !.word_regexp = word_regexp]
       \/ \E line_regexp \in BOOLEAN : cfg' = [cfg EXCEPT !.line_regexp = line_regexp]
       \/ \E no_messages \in BOOLEAN : cfg' = [cfg EXCEPT !.no_messages = no_messages]
       \/ \E invert_match \in BOOLEAN : cfg' = [cfg EXCEPT !.invert_match = invert_match]
       \/ \E output_line_numbers \in BOOLEAN :
              cfg' = [cfg EXCEPT !.output_line_numbers = output_line_numbers]
       \/ \E output_file_name \in BOOLEAN :
              cfg' = [cfg EXCEPT !.output_file_name = output_file_name]
       \/ \E color_output_mode \in {"AUTO", "ALWAYS", "NEVER"} :
              cfg' = [cfg EXCEPT !.color_output_mode = color_output_mode]
       \/ \E end \in {<<10>>, <<13, 10>>} : cfg' = [cfg EXCEPT !.end = end]
       \* results_sep, name_num_sep: the text between the fields of a
       \* record, which the records here keep apart
       \/ \E sep \in {"results_sep", "name_num_sep"} : cfg' = cfg
    /\ UNCHANGED <<pc, result, self_patterns>>

\* execute() and the other methods called after execute() returned: the
\* patterns a, A and - in every dialect, with and without word_regexp,
\* over the lines a and b
InitAgain ==
    \E st \in SearchTypes, w \in BOOLEAN,
       pats \in PatternLists({<<97>>, <<65>>, <<45>>}),
       fs \in FilesOfLines({<<97>>, <<98>>}) :
        InitWith([DefaultCfg EXCEPT !.files = fs, !.search_type = st, !.word_regexp = w,
                                    !.color_output_mode = "NEVER"],
                 pats)

SpecAgain ==
    InitAgain /\ [][Next \/ ExecuteAgain \/ clear_patterns \/ add_patterns \/ clear_files
                         \/ add_files \/ reset \/ SetAttribute]_vars

\* the empty pattern, as _parse_patterns yields it for input that ends
\* with a newline: lists of the patterns "" and a in every dialect, with
\* and without color and invert_match, over the lines a, ab and b
InitEmpty ==
    \E st \in SearchTypes, inv \in BOOLEAN, col \in {"NEVER", "ALWAYS"},
       pats \in PatternLists({<<>>, <<97>>}),
       fs \in FilesOfLines({<<97>>, <<97, 98>>, <<98>>}) :
        InitWith([DefaultCfg EXCEPT !.files = fs, !.search_type = st, !.invert_match = inv,
                                    !.color_output_mode = col],
                 pats)

SpecEmpty == InitEmpty /\ [][Next]_vars

\* highlights with color: lists of the patterns a, b and U+00E9 in every
\* dialect, over the lines "ab", U+00E9 "a" and "a" U+00E9
InitHighlight ==
    \E st \in SearchTypes,
       pats \in PatternLists({<<97>>, <<98>>, <<233>>}),
       fs \in FilesOfLines({<<97, 98>>, <<195, 169, 97>>, <<97, 195, 169>>}) :
        InitWith([DefaultCfg EXCEPT !.files = fs, !.search_type = st,
                                    !.color_output_mode = "ALWAYS"],
                 pats)

SpecHighlight == InitHighlight /\ [][Next]_vars

-----------------------------------------------------------------------------
(* AnsiString under test: calls of apply_formatting and renders            *)

\* the Settings objects that the calls on one AnsiString create, between
\* two calls of clear_formatting
MaxCalls == 2

\* the base string "abc", the strings of assign_str ("abc" and "x"), the
\* codes 1 (bold) and 31 (red), the start indices and the lengths (<<>> is
\* None) of the calls
BaseStr == <<97, 98, 99>>
AssignedStrs == {BaseStr, <<120>>}
Codes == {1, 31}
StartIdxs == {0, 1, 3}
Lengths == {<<>>, <<0>>, <<1>>, <<2>>}

\* a call of apply_formatting on the string
AnsiApply ==
    /\ pc = "ansi"
    /\ data.formatted_line.objects < MaxCalls
    /\ \E code \in Codes, start_idx \in StartIdxs, length \in Lengths :
           data' = [data EXCEPT !.formatted_line =
                                    apply_formatting(@, code, start_idx, length)]
    /\ out_str' = <<>>
    /\ result' = "running"
    /\ UNCHANGED <<cfg, self_patterns, pc, fp, print_line, print_file, sys_stdout,
                   sys_stderr, binary_selected>>
    /\ UNCHANGED <<finder_parser, search_main, method_calls>>

\* a call of assign_str: the base string is replaced, the interval map
\* stays
AnsiAssignStr ==
    /\ pc = "ansi"
    /\ \E s \in AssignedStrs : data' = [data EXCEPT !.formatted_line.s = s]
    /\ out_str' = <<>>
    /\ result' = "running"
    /\ UNCHANGED <<cfg, self_patterns, pc, fp, print_line, print_file, sys_stdout,
                   sys_stderr, binary_selected>>
    /\ UNCHANGED <<finder_parser, search_main, method_calls>>

\* a call of clear_formatting: the interval map is a new empty dict, no
\* Settings object is left
AnsiClearFormatting ==
    /\ pc = "ansi"
    /\ data' = [data EXCEPT !.formatted_line = NewAnsiString(@.s)]
    /\ out_str' = <<>>
    /\ result' = "running"
    /\ UNCHANGED <<cfg, self_patterns, pc, fp, print_line, print_file, sys_stdout,
                   sys_stderr, binary_selected>>
    /\ UNCHANGED <<finder_parser, search_main, method_calls>>

\* what a render leaves: the text returned, or the exception raised to
\* the caller, who may go on with the object
Rendered(spec, r) ==
    /\ data' = [data EXCEPT !.formatted_line = r.a]
    /\ IF r.status = "ok"
       THEN /\ out_str' = <<[spec |-> spec, out |-> r.out]>>
            /\ result' = "running"
       ELSE /\ out_str' = <<>>
            /\ result' = r.status

\* str(s) or format(s, '[31'); the Settings object of the format spec
\* counts among those the calls may create
AnsiRender ==
    /\ pc = "ansi"
    /\ \E spec \in {<<>>, <<31>>} :
           /\ spec # <<>> => data.formatted_line.objects < MaxCalls
           /\ Rendered(spec, Format(data.formatted_line, spec))
    /\ UNCHANGED <<cfg, self_patterns, pc, fp, print_line, print_file, sys_stdout,
                   sys_stderr, binary_selected>>
    /\ UNCHANGED <<finder_parser, search_main, method_calls>>

InitAnsi ==
    /\ cfg = DefaultCfg
    /\ self_patterns = <<>>
    /\ pc = "ansi"
    /\ data = [InitLineParsingData(DefaultCfg) EXCEPT
                   !.formatted_line = NewAnsiString(BaseStr)]
    /\ fp = [pos |-> 0, open |-> FALSE]
    /\ print_line = FALSE
    /\ print_file = <<>>
    /\ sys_stdout = <<>>
    /\ sys_stderr = <<>>
    /\ result = "running"
    /\ binary_selected = {}
    /\ finder_parser = NewFinderParser
    /\ search_main = NoSearch
    /\ out_str = <<>>
    /\ method_calls = 0

SpecAnsi ==
    InitAnsi /\ [][AnsiApply \/ AnsiAssignStr \/ AnsiClearFormatting \/ AnsiRender]_vars

-----------------------------------------------------------------------------
(* _pattern_escape_invert applied to a pattern, once and once again        *)

MaxPatternLen == 4

\* the characters of the patterns: a, backslash, ( and |
PatternChars == {97, 92, 40, 124}

\* one call pattern = _pattern_escape_invert(pattern, '?+{}|()')
EscapeInvert ==
    /\ pc \in {"escape_0", "escape_1"}
    /\ self_patterns' =
           [i \in 1..Len(self_patterns) |->
               Str(pattern_escape_invert(self_patterns[i].s, BasicMetaChars))]
    /\ pc' = IF pc = "escape_0" THEN "escape_1" ELSE "escape_2"
    /\ UNCHANGED <<cfg, data, fp, print_line, print_file, sys_stdout, sys_stderr,
                   result, binary_selected>>
    /\ UNCHANGED <<finder_parser, search_main, out_str, method_calls>>

InitEscape ==
    \E p \in SeqsUpTo(PatternChars, MaxPatternLen) :
        /\ cfg = [DefaultCfg EXCEPT !.patterns = <<p>>]
        /\ self_patterns = <<Str(p)>>
        /\ pc = "escape_0"
        /\ data = InitLineParsingData(DefaultCfg)
        /\ fp = [pos |-> 0, open |-> FALSE]
        /\ print_line = FALSE
        /\ print_file = <<>>
        /\ sys_stdout = <<>>
        /\ sys_stderr = <<>>
        /\ result = "running"
        /\ binary_selected = {}
        /\ finder_parser = NewFinderParser
        /\ search_main = NoSearch
        /\ out_str = <<>>
        /\ method_calls = 0

SpecEscape == InitEscape /\ [][EscapeInvert]_vars

-----------------------------------------------------------------------------
(* find.py: FinderParser.main reading its arguments one by one.  The       *)
(* arguments drawn are -regextype, -regex and words that are no option;    *)
(* the other keys of OPTION_DICT are never drawn.  A Matcher chain is the  *)
(* list of its matchers, each [pattern, regex_type, invert].  cwd is the   *)
(* working directory: the names of the regular files it holds, and         *)
(* nothing else                                                            *)

\* the strings -regextype, -regex, py, sed, egrep, awk and a|b
ArgRegextype == <<45, 114, 101, 103, 101, 120, 116, 121, 112, 101>>
ArgRegex == <<45, 114, 101, 103, 101, 120>>
ArgPy == <<112, 121>>
ArgSed == <<115, 101, 100>>
ArgEgrep == <<101, 103, 114, 101, 112>>
ArgAwk == <<97, 119, 107>>
ArgPattern == <<97, 124, 98>>

\* FinderParser.OPTION_DICT.get(arg, None)
OPTION_DICT(arg) ==
    IF arg = ArgRegextype THEN "REGEX_TYPE"
    ELSE IF arg = ArgRegex THEN "REGEX"
    ELSE "None"

\* FinderParser._handle_option: true iff an argument is expected, which it
\* is for -regextype and -regex
HandleOption(opt) == opt \in {"REGEX_TYPE", "REGEX"}

\* RegexMatcher(pattern, regex_type), its invert flag as append_matcher
\* sets it
RegexMatcher(pattern, regex_type) ==
    [pattern |-> IF regex_type = "SED"
                 THEN pattern_escape_invert(pattern, <<43, 63, 124, 123, 125, 40, 41>>)
                 ELSE pattern,
     regex_type |-> regex_type,
     invert |-> FALSE]

\* the branch of _handle_arg for Options.REGEX_TYPE: [p, raised]
HandleRegexType(p, arg) ==
    IF arg = ArgPy THEN [p |-> [p EXCEPT !.current_regex_type = "PY"], raised |-> FALSE]
    ELSE IF arg = ArgSed THEN [p |-> [p EXCEPT !.current_regex_type = "SED"], raised |-> FALSE]
    ELSE IF arg = ArgEgrep
    THEN [p |-> [p EXCEPT !.current_regex_type = "EGREP"], raised |-> TRUE]
    ELSE [p |-> p, raised |-> FALSE]

\* FinderParser._handle_arg(opt, arg, finder): [p, raised], raised for
\* ValueError; no directory has a name that begins with a dash
HandleArg(p, opt, arg) ==
    IF opt = "None"
    THEN IF StartsWith(arg, <<45>>) THEN [p |-> p, raised |-> TRUE]
         ELSE IF p.opt_idx # 0 THEN [p |-> p, raised |-> TRUE]
         ELSE [p |-> [p EXCEPT !.root_dirs = Append(@, arg)], raised |-> FALSE]
    ELSE IF opt = "REGEX_TYPE" THEN HandleRegexType(p, arg)
    ELSE [p |-> [p EXCEPT !.matchers = Append(@, RegexMatcher(arg, p.current_regex_type))],
          raised |-> FALSE]

\* what one round of the for loop of main leaves, r the outcome of
\* _handle_arg
FindArgHandled(r) ==
    IF r.raised
    THEN /\ finder_parser' = r.p
         /\ pc' = "done"
         /\ result' = "ValueError"
    ELSE /\ finder_parser' = [r.p EXCEPT !.current_option = "None", !.arg_idx = @ + 1]
         /\ UNCHANGED <<pc, result>>

\* one round of the for loop of FinderParser.main
FindMainArg ==
    /\ pc = "find_main"
    /\ finder_parser.arg_idx < Len(finder_parser.cliargs)
    /\ LET arg == finder_parser.cliargs[finder_parser.arg_idx + 1]
           opt == OPTION_DICT(arg)
       IN  IF opt = "None" \/ finder_parser.current_option # "None"
           THEN FindArgHandled(HandleArg(finder_parser, finder_parser.current_option, arg))
           ELSE /\ finder_parser' =
                       [finder_parser EXCEPT !.opt_idx = @ + 1, !.arg_idx = @ + 1,
                                             !.current_option =
                                                 IF HandleOption(opt) THEN opt ELSE @]
                /\ UNCHANGED <<pc, result>>
    /\ UNCHANGED <<cfg, self_patterns, data, fp, print_line, print_file, sys_stdout,
                   sys_stderr, binary_selected, search_main, out_str, method_calls>>

\* RegexMatcher.is_match: re.search finds the pattern in the full path;
\* a pattern that re rejects matches nothing
RegexIsMatch(m, full_path) ==
    LET found == /\ RegexValid(m.pattern)
                 /\ SearchFrom(Branches(m.pattern), full_path, 0, FALSE, FALSE)[1] >= 0
    IN  IF m.invert THEN ~found ELSE found

\* Finder._matcher.is_match: the DefaultMatcher matches everything, the
\* chain of GatedMatchers is the AND of its matchers
FinderIsMatch(matchers, full_path) ==
    \A k \in 1..Len(matchers) : RegexIsMatch(matchers[k], full_path)

\* the full paths that Finder.execute handles for a root directory: the
\* root itself and, when it is a directory, what os.walk finds under it;
\* "." is the one directory
WalkedPaths(root_dir, cwd) ==
    <<root_dir>> \o (IF root_dir = <<46>>
                      THEN [k \in 1..Len(cwd) |-> <<46, 47>> \o cwd[k]]
                      ELSE <<>>)

\* Finder.execute with the PrintAction: the paths printed, root after root
FinderExecute(p) ==
    LET root_dirs == IF p.root_dirs = <<>> THEN <<<<46>>>> ELSE p.root_dirs
    IN  Concat([r \in 1..Len(root_dirs) |->
                   SelectSeq(WalkedPaths(root_dirs[r], p.cwd),
                             LAMBDA full_path : FinderIsMatch(p.matchers, full_path))])

\* the end of FinderParser.main: no -exec is open, finder.execute() prints
\* the paths that match and main returns 0
FindMainReturn ==
    /\ pc = "find_main"
    /\ finder_parser.arg_idx = Len(finder_parser.cliargs)
    /\ sys_stdout' = sys_stdout \o FinderExecute(finder_parser)
    /\ pc' = "done"
    /\ result' = "0"
    /\ UNCHANGED <<cfg, self_patterns, data, fp, print_line, print_file,
                   sys_stderr, binary_selected, finder_parser, search_main, out_str,
                   method_calls>>

MaxArgs == 4

\* the arguments of a find command line
FindArgs == {ArgRegextype, ArgRegex, ArgPy, ArgSed, ArgEgrep, ArgAwk, ArgPattern}

InitFind ==
    /\ cfg = DefaultCfg
    /\ self_patterns = <<>>
    /\ pc = "find_main"
    /\ data = InitLineParsingData(DefaultCfg)
    /\ fp = [pos |-> 0, open |-> FALSE]
    /\ print_line = FALSE
    /\ print_file = <<>>
    /\ sys_stdout = <<>>
    /\ sys_stderr = <<>>
    /\ result = "running"
    /\ binary_selected = {}
    /\ \E args \in SeqsUpTo(FindArgs, MaxArgs), cwd \in {<<>>, <<ArgPy>>} :
           finder_parser = [NewFinderParser EXCEPT !.cliargs = args, !.cwd = cwd]
    /\ search_main = NoSearch
    /\ out_str = <<>>
    /\ method_calls = 0

SpecFind == InitFind /\ [][FindMainArg \/ FindMainReturn]_vars

-----------------------------------------------------------------------------
(* search.py: main, the grep process and the printer thread                *)

\* what the terminal shows: a command line, a line of grep (n its number),
\* the prompt of input(), 'Cancelled' or 'Invalid entry'
Shown(kind, n) == [kind |-> kind, n |-> n]

SearchUnchanged ==
    UNCHANGED <<cfg, self_patterns, data, fp, print_line, print_file, sys_stdout,
                sys_stderr, binary_selected, finder_parser, out_str, method_calls>>

\* main from its first line to the Popen of grep: _parse_args refuses
\* -s together with --dryRun, the two options of one mutually exclusive
\* group, with a message on stderr and SystemExit(2); else the command is
\* printed unless silent, find runs to its end, grep is started unless the
\* run is a dry run or a silent replace
SearchMainPopen ==
    /\ pc = "search_main" /\ search_main.main = "start"
    /\ LET a == search_main.args
           shown == IF ~a.silent THEN Append(search_main.stdout, Shown("command", 0))
                    ELSE search_main.stdout
       IN  IF a.silent /\ a.dry_run
           THEN /\ search_main' = [search_main EXCEPT !.main = "raised"]
                /\ sys_stderr' = Append(sys_stderr, "not allowed with argument")
                /\ pc' = "done"
                /\ result' = "SystemExit"
           ELSE /\ search_main' =
                       IF ~a.dry_run /\ (~a.replace_string \/ ~a.silent)
                       THEN [search_main EXCEPT !.stdout = shown, !.grep_process = "running",
                                                !.stdin = "open",
                                                !.main = IF ~a.no_grep_tweaks
                                                         THEN "thread_start"
                                                         ELSE "stdin_write"]
                       ELSE [search_main EXCEPT !.stdout = shown, !.main = "replace"]
                /\ UNCHANGED <<pc, result, sys_stderr>>
    /\ UNCHANGED <<cfg, self_patterns, data, fp, print_line, print_file, sys_stdout,
                   binary_selected, finder_parser, out_str, method_calls>>

\* print_thread.start()
SearchMainThreadStart ==
    /\ pc = "search_main" /\ search_main.main = "thread_start"
    /\ search_main' = [search_main EXCEPT !.print_thread = "readline", !.main = "stdin_write"]
    /\ UNCHANGED <<pc, result>>
    /\ SearchUnchanged

\* grep_process.stdin.write(find_output) is called: a short list is taken
\* by the buffer of the writer or by the pipe and the call returns; with a
\* long list the call blocks while xargs reads the pipe and runs grep
SearchMainStdinWrite ==
    /\ pc = "search_main" /\ search_main.main = "stdin_write"
    /\ search_main.stdin = "open"
    /\ search_main' = IF search_main.find_output = "short"
                      THEN [search_main EXCEPT !.stdin = "written", !.main = "stdin_close"]
                      ELSE [search_main EXCEPT !.stdin = "writing"]
    /\ UNCHANGED <<pc, result>>
    /\ SearchUnchanged

\* grep_process.stdin.write(find_output) returns: the pipe has taken the
\* rest of a long list
SearchMainStdinWritten ==
    /\ pc = "search_main" /\ search_main.main = "stdin_write"
    /\ search_main.stdin = "writing"
    /\ search_main' = [search_main EXCEPT !.stdin = "written", !.main = "stdin_close"]
    /\ UNCHANGED <<pc, result>>
    /\ SearchUnchanged

\* grep_process.stdin.close()
SearchMainStdinClose ==
    /\ pc = "search_main" /\ search_main.main = "stdin_close"
    /\ search_main' = [search_main EXCEPT !.stdin = "closed", !.main = "wait"]
    /\ UNCHANGED <<pc, result>>
    /\ SearchUnchanged

\* grep_process.wait() returns when the process has ended
SearchMainWait ==
    /\ pc = "search_main" /\ search_main.main = "wait"
    /\ search_main.grep_process = "exited"
    /\ search_main' = [search_main EXCEPT !.main = "replace"]
    /\ UNCHANGED <<pc, result>>
    /\ SearchUnchanged

\* main from `if args.replace_string:` on: input() shows the prompt; or,
\* where no confirmation is asked, the command is printed unless silent
\* and, unless the run is a dry run, sed is started; with no replace
\* string main returns 0
SearchMainReplace ==
    /\ pc = "search_main" /\ search_main.main = "replace"
    /\ LET a == search_main.args
       IN  IF a.replace_string /\ ~a.silent /\ ~a.dry_run
           THEN /\ search_main' = [search_main EXCEPT
                                      !.stdout = Append(@, Shown("prompt", 0)),
                                      !.main = "input"]
                /\ UNCHANGED <<pc, result>>
           ELSE IF a.replace_string /\ ~a.dry_run
           THEN /\ search_main' = [search_main EXCEPT !.main = "communicate"]
                /\ UNCHANGED <<pc, result>>
           ELSE /\ search_main' = [search_main EXCEPT
                                      !.stdout = IF a.replace_string /\ ~a.silent
                                                 THEN Append(@, Shown("command", 0)) ELSE @,
                                      !.main = "returned"]
                /\ pc' = "done"
                /\ result' = "0"
    /\ SearchUnchanged

\* input() returns the answer of the user: n cancels and main returns 1,
\* y prints the command and starts sed, anything else is an invalid entry
\* and main returns 2
SearchMainAnswer ==
    /\ pc = "search_main" /\ search_main.main = "input"
    /\ \E input_str \in {"y", "n", "x"} :
           IF input_str = "y"
           THEN /\ search_main' = [search_main EXCEPT
                                      !.stdout = Append(@, Shown("command", 0)),
                                      !.main = "communicate"]
                /\ UNCHANGED <<pc, result>>
           ELSE /\ search_main' = [search_main EXCEPT
                                      !.stdout = Append(@, Shown(IF input_str = "n"
                                                                 THEN "Cancelled"
                                                                 ELSE "Invalid entry", 0)),
                                      !.main = "returned"]
                /\ pc' = "done"
                /\ result' = IF input_str = "n" THEN "1" ELSE "2"
    /\ SearchUnchanged

\* replace_process.communicate(input=find_output) returns when sed has
\* ended, and main returns 0
SearchMainCommunicate ==
    /\ pc = "search_main" /\ search_main.main = "communicate"
    /\ search_main' = [search_main EXCEPT !.main = "returned"]
    /\ pc' = "done"
    /\ result' = "0"
    /\ SearchUnchanged

\* xargs grep writes its next line: to the pipe that the printer thread
\* reads, or, with no_grep_tweaks, to the terminal it inherited.  xargs
\* runs grep when it has read arguments enough for a command line, which
\* only a long list has before its end, or at the end of its input
GrepProcessWrite ==
    /\ search_main.grep_process = "running"
    /\ \/ search_main.stdin = "closed"
       \/ search_main.find_output = "long" /\ search_main.stdin \in {"writing", "written"}
    /\ search_main.grep_written < search_main.grep_output
    /\ search_main' =
           IF search_main.args.no_grep_tweaks
           THEN [search_main EXCEPT !.grep_written = @ + 1,
                                    !.stdout = Append(@, Shown("line", search_main.grep_written + 1))]
           ELSE [search_main EXCEPT !.grep_written = @ + 1,
                                    !.pipe = Append(@, search_main.grep_written + 1)]
    /\ UNCHANGED <<pc, result>>
    /\ SearchUnchanged

\* xargs grep ends: its stdin is at end of file and its output is written
GrepProcessExit ==
    /\ search_main.grep_process = "running"
    /\ search_main.stdin = "closed"
    /\ search_main.grep_written = search_main.grep_output
    /\ search_main' = [search_main EXCEPT !.grep_process = "exited"]
    /\ UNCHANGED <<pc, result>>
    /\ SearchUnchanged

\* grep_print_thread_fn: proc.stdout.readline() returns the next line of
\* the pipe, or b'' at the end of the pipe, which ends the thread
PrintThreadReadline ==
    /\ search_main.print_thread = "readline"
    /\ IF search_main.pipe # <<>>
       THEN search_main' = [search_main EXCEPT !.line = Head(search_main.pipe),
                                               !.pipe = Tail(@), !.print_thread = "print"]
       ELSE /\ search_main.grep_process = "exited"
            /\ search_main' = [search_main EXCEPT !.print_thread = "finished"]
    /\ UNCHANGED <<pc, result>>
    /\ SearchUnchanged

\* grep_print_thread_fn: print(_grep_output_tweaks(line...), end='')
PrintThreadPrint ==
    /\ search_main.print_thread = "print"
    /\ search_main' = [search_main EXCEPT !.stdout = Append(@, Shown("line", search_main.line)),
                                          !.line = 0, !.print_thread = "readline"]
    /\ UNCHANGED <<pc, result>>
    /\ SearchUnchanged

SearchNext ==
    \/ SearchMainPopen \/ SearchMainThreadStart \/ SearchMainStdinWrite
    \/ SearchMainStdinWritten \/ SearchMainStdinClose \/ SearchMainWait
    \/ SearchMainReplace \/ SearchMainAnswer \/ SearchMainCommunicate
    \/ GrepProcessWrite \/ GrepProcessExit \/ PrintThreadReadline \/ PrintThreadPrint

MaxGrepLines == 2

\* main called with every combination of --replace, -s, --dryRun and
\* --noGrepTweaks on its command line, over a short or a long list of
\* files in which grep finds up to MaxGrepLines lines
InitSearch ==
    /\ cfg = DefaultCfg
    /\ self_patterns = <<>>
    /\ pc = "search_main"
    /\ data = InitLineParsingData(DefaultCfg)
    /\ fp = [pos |-> 0, open |-> FALSE]
    /\ print_line = FALSE
    /\ print_file = <<>>
    /\ sys_stdout = <<>>
    /\ sys_stderr = <<>>
    /\ result = "running"
    /\ binary_selected = {}
    /\ finder_parser = NewFinderParser
    /\ out_str = <<>>
    /\ method_calls = 0
    /\ \E r \in BOOLEAN, s \in BOOLEAN, d \in BOOLEAN, t \in BOOLEAN,
          f \in {"short", "long"}, n \in 0..MaxGrepLines :
           search_main = [NoSearch EXCEPT
                             !.args = [replace_string |-> r, silent |-> s, dry_run |-> d,
                                       no_grep_tweaks |-> t],
                             !.main = "start", !.find_output = f, !.grep_output = n]

SpecSearch == InitSearch /\ [][SearchNext]_vars

-----------------------------------------------------------------------------
(* What the specification says of lines and matches                        *)

Range(f) == {f[i] : i \in DOMAIN f}

RECURSIVE RefSegments(_, _)
\* the lines of a stream: one per delimiter-terminated segment, and the
\* non-empty run of bytes after the last delimiter
RefSegments(stream, delim) ==
    LET loc == Find(stream, delim, 0)
    IN  IF loc >= 0
        THEN <<[content |-> SubSeq(stream, 1, loc), terminated |-> TRUE]>>
                 \o RefSegments(DropFirst(stream, loc + Len(delim)), delim)
        ELSE IF stream # <<>> THEN <<[content |-> stream, terminated |-> FALSE]>>
        ELSE <<>>

\* the bytes read so far from the current source, and the last line in them
Consumed == SubSeq(SourceStream(data.file), 1, fp.pos)
CurSeg == RefSegments(Consumed, cfg.end)[Len(RefSegments(Consumed, cfg.end))]

\* the source i was read to its end
Completed(i) == i < data.file \/ (i = data.file /\ pc \in {"files", "done"})

\* a summary with the message msg was printed for the source i
Summary(i, msg) ==
    \E k \in 1..Len(sys_stdout) :
        sys_stdout[k].filename = i /\ msg \in Range(sys_stdout[k].status_msgs)

\* the compiled pattern q alone matches the line, in the mode of the run
Matches(q, line) ==
    IF data.fixed_string_parse THEN Find(line, q, 0) >= 0
    ELSE IF cfg.line_regexp THEN FullMatch(q, line, cfg.ignore_case)
    ELSE FindIter(q, line, cfg.ignore_case) # <<>>

\* C1: with invert_match, a line is reported iff none of the patterns of
\* the list matches it
C1_InvertReportsIffNoPatternMatches ==
    (pc = "line_done" /\ cfg.invert_match)
        => (print_line <=> \A i \in 1..Len(self_patterns) :
                              ~Matches(self_patterns[i].s, data.line))

\* C2: fixed strings without anchors select a line iff a pattern occurs in
\* it as a substring, both lowercased when ignore_case is set
C2_FixedStringIsSubstringSearch ==
    (pc = "line_done" /\ cfg.search_type = "FIXED_STRINGS" /\ ~cfg.word_regexp
        /\ ~cfg.line_regexp /\ ~cfg.invert_match /\ Decodable(data.line))
        => LET L == IF cfg.ignore_case THEN Encode(Lower(Decode(data.line))) ELSE data.line
               P(i) == IF cfg.ignore_case THEN Encode(Lower(cfg.patterns[i]))
                       ELSE Encode(cfg.patterns[i])
           IN  print_line <=> \E i \in 1..Len(cfg.patterns) : Find(L, P(i), 0) >= 0

\* C3: the number in the record of the k-th line of a source is k
C3_LineNumberIsIndexInSource ==
    (pc = "line_done" /\ print_line /\ ~data.binary_detected /\ cfg.output_line_numbers)
        => print_file[Len(print_file)].num = <<Len(RefSegments(Consumed, cfg.end))>>

\* the pattern is not a valid expression of the dialect of the run
InvalidForDialect(pattern) ==
    /\ cfg.search_type # "FIXED_STRINGS"
    /\ ~RegexValid(Encode(IF cfg.search_type = "BASIC_REGEXP"
                          THEN pattern_escape_invert(pattern, BasicMetaChars)
                          ELSE pattern))

\* C4: a pattern that is not valid for its dialect is reported before any
\* line is read and before any record is emitted, and is always reported
C4_PatternErrorBeforeAnyLine ==
    (\E i \in 1..Len(cfg.patterns) : InvalidForDialect(cfg.patterns[i]))
        => /\ pc \notin {"parse_line", "line_done"}
           /\ print_file = <<>>
           /\ sys_stdout = <<>>
           /\ (pc = "done" => result = "re.error")

\* the source i holds a line whose content exceeds the cap before its
\* delimiter
HasOverflowLine(i) ==
    \E seg \in Range(RefSegments(SourceStream(i), cfg.end)) :
        seg.terminated /\ Len(seg.content) > LINE_BYTE_LIMIT

\* C5: the overflow summary of a source is printed iff one of the lines of
\* that source overflowed
C5_OverflowSummaryIffOverflowLine ==
    \A i \in 1..NumSources :
        Completed(i) => (Summary(i, "line overflow detected") <=> HasOverflowLine(i))

\* C6: a selected line that decodes as text is emitted as a record, a
\* selected line that does not is not
C6_SelectedTextLinesAreEmitted ==
    (pc = "line_done" /\ print_line)
        => (Decodable(data.line)
              <=> /\ print_file # <<>>
                  /\ print_file[Len(print_file)].filename = <<data.file>>
                  /\ print_file[Len(print_file)].num = <<data.line_idx + 1>>)

\* C7: the binary summary of a source is printed iff a line of that source
\* that does not decode was selected
C7_BinarySummaryIffBinaryLineSelected ==
    \A i \in 1..NumSources :
        Completed(i) => (Summary(i, "binary file matches") <=> i \in binary_selected)

\* C8: a source yields one line per delimiter-terminated segment and one
\* for a non-empty run after the last delimiter, and no other
C8_OneLinePerSegment ==
    /\ pc \in {"parse_line", "line_done"}
          => data.line_idx = Len(RefSegments(Consumed, cfg.end))
    /\ (pc = "files" /\ data.file >= 1)
          => /\ fp.pos = Len(SourceStream(data.file))
             /\ data.line_idx - 1 = Len(RefSegments(SourceStream(data.file), cfg.end))

\* C9: a delimiter-terminated line longer than the cap is returned once,
\* with overflow recorded and the first LINE_BYTE_LIMIT bytes as content; a
\* final line without delimiter that exceeds the cap records no overflow
C9_OverlongLineTruncatedOnce ==
    (pc = "parse_line" /\ Consumed # <<>> /\ Len(CurSeg.content) > LINE_BYTE_LIMIT)
        => /\ (CurSeg.terminated /\ fp.open)
                 => /\ data.overflow_detected
                    /\ data.line = SubSeq(CurSeg.content, 1, LINE_BYTE_LIMIT)
                    /\ data.line_idx = Len(RefSegments(Consumed, cfg.end))
           /\ ~CurSeg.terminated => ~data.overflow_detected

\* the content of a line whose delimiter was found, the CR before a
\* delimiter that begins with LF stripped
Normalised(content) ==
    IF StartsWith(cfg.end, <<10>>) /\ EndsWith(content, <<13>>)
    THEN SubSeq(content, 1, Len(content) - 1) ELSE content

\* C10: a delimiter-terminated line of at most LINE_BYTE_LIMIT bytes of
\* content reaches the matcher as those bytes, without overflow recorded
C10_ShortLineIntactNoOverflow ==
    (pc = "parse_line" /\ Consumed # <<>> /\ CurSeg.terminated /\ fp.open
        /\ Len(CurSeg.content) <= LINE_BYTE_LIMIT)
        => /\ data.line = Normalised(CurSeg.content)
           /\ ~data.overflow_detected

\* C11: with invert_match, an emitted record carries no highlight span
C11_InvertedRecordHasNoHighlight ==
    (pc = "line_done" /\ cfg.invert_match /\ print_line /\ ~data.binary_detected)
        => print_file[Len(print_file)].line.fmt = <<>>

RECURSIVE WellEscaped(_, _)
\* every backslash of p[i..] escapes the character after it
WellEscaped(p, i) ==
    IF i > Len(p) THEN TRUE
    ELSE IF p[i] = 92 THEN i < Len(p) /\ WellEscaped(p, i + 2)
    ELSE WellEscaped(p, i + 1)

\* C12: _pattern_escape_invert over ?+{}|() applied twice to a pattern
\* with well-formed escaping returns the pattern
C12_EscapeInvertIsInvolution ==
    (pc = "escape_2" /\ WellEscaped(cfg.patterns[1], 1))
        => self_patterns[1].s = cfg.patterns[1]

\* the line just parsed is selected when the run is configured as c
SelectedUnder(c) ==
    ParseLoop([print_line |-> FALSE, fl |-> AnsiString(<<>>), brk |-> FALSE,
               status |-> "ok"],
              self_patterns, 1, data, c).print_line

\* C13: with word_regexp and line_regexp both set, the lines selected are
\* those selected with word_regexp alone
C13_LineAnchorIgnoredWithWordAnchor ==
    (pc = "line_done" /\ cfg.word_regexp /\ cfg.line_regexp)
        => print_line = SelectedUnder([cfg EXCEPT !.line_regexp = FALSE])

\* the branches of the pattern p as configured, read in the dialect of the
\* run, before any anchor is added: a fixed string is one branch of
\* literals
UnanchoredBranches(p) ==
    IF cfg.search_type = "FIXED_STRINGS"
    THEN <<[k \in 1..Len(Encode(p)) |-> [k |-> "lit", c |-> Encode(p)[k]]]>>
    ELSE Branches(Encode(IF cfg.search_type = "BASIC_REGEXP"
                         THEN pattern_escape_invert(p, BasicMetaChars)
                         ELSE p))

\* some match of the branches bs in the line begins and ends at a word
\* boundary
HasWordMatch(bs, line) ==
    \E s \in 0..Len(line), j \in 1..Len(bs) :
        /\ MatchBranch(bs[j], line, s, cfg.ignore_case) >= 0
        /\ AtWordBoundary(line, s)
        /\ AtWordBoundary(line, MatchBranch(bs[j], line, s, cfg.ignore_case))

\* C14: with word_regexp, a line is selected iff a match of one of the
\* patterns in it begins and ends at a word boundary
C14_WordAnchorSelectsWholeWords ==
    (pc = "line_done" /\ cfg.word_regexp /\ ~cfg.line_regexp /\ ~cfg.invert_match)
        => (print_line <=> \E i \in 1..Len(cfg.patterns) :
                              HasWordMatch(UnanchoredBranches(cfg.patterns[i]), data.line))

\* the rendered text with the escape sequences removed
StripEscapes(out) ==
    LET chars == SelectSeq(out, LAMBDA x : ~x.esc)
    IN  [k \in 1..Len(chars) |-> chars[k].v[1]]

\* C15: every render of an AnsiString succeeds and, escape sequences
\* removed, is the base text; with an empty interval map and no format
\* spec it is the base text with no escape sequence
C15_RenderPreservesBaseText ==
    pc \in {"ansi", "done"} =>
        /\ result # "ValueError"
        /\ out_str # <<>> =>
              /\ StripEscapes(out_str[1].out) = data.formatted_line.s
              /\ (out_str[1].spec = <<>> /\ DOMAIN data.formatted_line.color_settings = {})
                    => Len(out_str[1].out) = Len(data.formatted_line.s)

\* the index in settings_dict under which the Settings object is filed
\* for removal, or -1 (the range has no end)
EndOf(settings_dict, setting) ==
    IF \E e \in DOMAIN settings_dict : setting \in Range(settings_dict[e].remove)
    THEN CHOOSE e \in DOMAIN settings_dict : setting \in Range(settings_dict[e].remove)
    ELSE -1

\* the style instances of an interval map: [setting, start, end]
Instances(settings_dict) ==
    UNION {{[setting |-> x, start |-> idx, end |-> EndOf(settings_dict, x)] :
               x \in Range(settings_dict[idx].apply)} : idx \in DOMAIN settings_dict}

\* the range of the instance covers the offset i
Covers(inst, i) == inst.start <= i /\ (inst.end < 0 \/ i < inst.end)

RECURSIVE ApplyCodes(_, _, _)
\* what a terminal showing the styles `active` shows after the codes
\* v[k..] of one escape sequence: RESET clears, any other code adds
ApplyCodes(active, v, k) ==
    IF k > Len(v) THEN active
    ELSE ApplyCodes(IF v[k] = RESET THEN {} ELSE active \cup {v[k]}, v, k + 1)

RECURSIVE ActiveAfter(_, _)
\* the styles a terminal shows after the first n elements of the rendered
\* text; the empty escape sequence clears
ActiveAfter(out, n) ==
    IF n = 0 THEN {}
    ELSE IF ~out[n].esc THEN ActiveAfter(out, n - 1)
    ELSE IF out[n].v = <<>> THEN {}
    ELSE ApplyCodes(ActiveAfter(out, n - 1), out[n].v, 1)

\* the place in the rendered text of the character at offset i
CharPos(out, i) ==
    CHOOSE p \in 1..Len(out) :
        ~out[p].esc /\ Cardinality({q \in 1..(p - 1) : ~out[q].esc}) = i

\* C16: when every range has positive length, at every offset of the
\* text that str() returned the styles in effect are those of the
\* instances whose range covers the offset, and the escape sequence at the
\* end offset of an instance starts with a reset or is the clear sequence
C16_ActiveStylesAreCoveringRanges ==
    (pc = "ansi" /\ out_str # <<>> /\ out_str[1].spec = <<>>
        /\ \A x \in Instances(data.formatted_line.color_settings) :
              x.end < 0 \/ x.end > x.start)
        => \A i \in 0..(Len(data.formatted_line.s) - 1) :
               /\ ActiveAfter(out_str[1].out, CharPos(out_str[1].out, i))
                     = {x.setting.str :
                           x \in {y \in Instances(data.formatted_line.color_settings) :
                                     Covers(y, i)}}
               /\ (\E x \in Instances(data.formatted_line.color_settings) : x.end = i)
                     => LET e == out_str[1].out[CharPos(out_str[1].out, i) - 1]
                        IN  e.esc /\ (e.v = <<>> \/ e.v[1] = RESET)

\* C16 witness: str() returned the string with bold over [0,2) and red
\* over [1,3): at offset 2 bold has ended and red is still in effect
C16_Witness ==
    /\ pc = "ansi"
    /\ out_str # <<>> /\ out_str[1].spec = <<>>
    /\ \E x, y \in Instances(data.formatted_line.color_settings) :
           /\ x.setting.str = 1 /\ x.start = 0 /\ x.end = 2
           /\ y.setting.str = 31 /\ y.start = 1 /\ y.end = 3
    /\ ActiveAfter(out_str[1].out, CharPos(out_str[1].out, 2)) = {31}

\* C17: a render of an AnsiString, with or without format spec, leaves
\* its interval map as it was
C17_RenderLeavesMapUnchanged ==
    [][(pc = "ansi" /\ out_str' # <<>>)
          => data'.formatted_line.color_settings = data.formatted_line.color_settings]_vars

\* C18: when the sink is broken, execute ends without raising the failure
\* of the write to its caller
C18_BrokenSinkNotRaised ==
    pc = "done" => result # "BrokenPipeError"

\* the records emitted for the source i
RecordsOf(i) == {k \in 1..Len(print_file) : print_file[k].filename = <<i>>}

\* the lines of the source i that hold the byte b
LinesWith(i, b) ==
    {k \in 1..Len(RefSegments(SourceStream(i), cfg.end)) :
        b \in Range(RefSegments(SourceStream(i), cfg.end)[k].content)}

\* the sources among the first n that cannot be opened
Unopened(n) == {i \in 1..n : ~cfg.files[i].exists}

\* C19: a source that cannot be opened gets one message unless
\* no_messages is set and no record; the run goes on, every other source
\* has its records at the end, and execute returns 0
C19_UnopenableSourceIsSkipped ==
    (pc \in {"files", "next_line", "parse_line", "line_done", "done"} /\ ~IsStdin)
        => /\ Len(sys_stderr) = IF cfg.no_messages THEN 0
                                 ELSE Cardinality(Unopened(data.file))
           /\ \A i \in Unopened(Len(cfg.files)) : RecordsOf(i) = {}
           /\ pc = "done"
                 => /\ result = "0"
                    /\ data.file = Len(cfg.files)
                    /\ \A i \in 1..Len(cfg.files) :
                          cfg.files[i].exists
                              => Cardinality(RecordsOf(i)) = Cardinality(LinesWith(i, 97))

\* C19 witness: the run ended after a source that could not be opened
\* and was reported, and a later source has its record
C19_Witness ==
    /\ pc = "done"
    /\ sys_stderr # <<>>
    /\ \E i, j \in 1..Len(cfg.files) :
           i < j /\ ~cfg.files[i].exists /\ cfg.files[j].exists /\ RecordsOf(j) # {}

RECURSIVE OccurrencesFrom(_, _, _)
\* the spans of the occurrences of the non-empty string q in the line
\* from the offset `from` on, leftmost first and none overlapping another
OccurrencesFrom(line, q, from) ==
    IF \E x \in from..Len(line) : OccursAt(line, q, x)
    THEN LET x == CHOOSE x \in from..Len(line) :
                      OccursAt(line, q, x) /\ \A h \in from..(x - 1) : ~OccursAt(line, q, h)
         IN  <<<<x, x + Len(q)>>>> \o OccurrencesFrom(line, q, x + Len(q))
    ELSE <<>>

\* the spans of the matches of the compiled pattern q in the line, in the
\* mode of the run
SpansOf(q, line) ==
    IF data.fixed_string_parse THEN OccurrencesFrom(line, q, 0)
    ELSE IF cfg.line_regexp
    THEN (IF FullMatch(q, line, cfg.ignore_case) THEN <<<<0, Len(line)>>>> ELSE <<>>)
    ELSE FindIter(q, line, cfg.ignore_case)

RECURSIVE AllSpans(_, _)
\* the spans of the first n patterns of the list, pattern after pattern
AllSpans(line, n) ==
    IF n = 0 THEN <<>>
    ELSE AllSpans(line, n - 1) \o SpansOf(self_patterns[n].s, line)

\* a highlight [start, length] for each span of a list
Highlights(spans) ==
    [k \in 1..Len(spans) |-> [start |-> spans[k][1], length |-> spans[k][2] - spans[k][1]]]

\* the compiled pattern of index i is one the run can evaluate
Evaluable(i) == data.fixed_string_parse \/ RegexValid(self_patterns[i].s)

\* C20: with color and without invert_match, every pattern of the list
\* is evaluated against a selected line and every match of every pattern
\* is highlighted; without color and without invert_match, no pattern
\* after the first that matches is evaluated
C20_ColorScansAllPatterns ==
    /\ (pc = "line_done" /\ data.color_enabled /\ ~cfg.invert_match /\ print_line)
          => /\ \A i \in 1..Len(self_patterns) : Evaluable(i)
             /\ data.formatted_line.fmt
                   = Highlights(AllSpans(data.line, Len(self_patterns)))
    /\ (pc = "done" /\ result = "re.error" /\ ~data.color_enabled /\ ~cfg.invert_match)
          => \E h \in 1..Len(self_patterns) :
                /\ ~Evaluable(h)
                /\ \A i \in 1..(h - 1) : Evaluable(i) /\ ~Matches(self_patterns[i].s, data.line)
    /\ (pc = "line_done" /\ ~data.color_enabled /\ ~cfg.invert_match)
          => (print_line <=> \E i \in 1..Len(self_patterns) :
                                /\ Evaluable(i) /\ Matches(self_patterns[i].s, data.line)
                                /\ \A h \in 1..(i - 1) : Evaluable(h))

\* C20 witness: with color, the line aa was selected and carries the
\* highlights of both patterns of the list, three at least
C20_Witness ==
    /\ pc = "line_done" /\ data.color_enabled /\ ~cfg.invert_match /\ print_line
    /\ Len(self_patterns) = 2
    /\ SpansOf(self_patterns[1].s, data.line) # <<>>
    /\ SpansOf(self_patterns[2].s, data.line) # <<>>
    /\ Len(data.formatted_line.fmt) >= 3

\* C21: the text of the record of a selected text line is the decoded
\* line as it was read, letter case included
C21_EmittedTextIsOriginalLine ==
    (pc = "line_done" /\ print_line /\ ~data.binary_detected)
        => print_file[Len(print_file)].line.s = Decode(data.line)

\* the first LINE_BYTE_LIMIT bytes of the content of a line
Capped(content) ==
    IF Len(content) > LINE_BYTE_LIMIT THEN SubSeq(content, 1, LINE_BYTE_LIMIT) ELSE content

\* C22: a trailing CR is removed from the content of a line only before a
\* delimiter that begins with LF and was found (the line with its
\* delimiter fits the cap); a final line without delimiter and a line cut
\* at the cap keep a CR that is their last byte
C22_CarriageReturnStrippedOnlyBeforeDelimiter ==
    (pc = "parse_line" /\ Consumed # <<>>
        /\ data.line_idx = Len(RefSegments(Consumed, cfg.end)))
        => /\ (CurSeg.terminated /\ Len(CurSeg.content) + Len(cfg.end) <= LINE_BYTE_LIMIT)
                 => data.line = Normalised(CurSeg.content)
           /\ (~CurSeg.terminated \/ Len(CurSeg.content) > LINE_BYTE_LIMIT)
                 => data.line = Capped(CurSeg.content)

\* the records of print_file are in the order of their sources and, in one
\* source, of their lines
InSourceOrder ==
    \A k, l \in 1..Len(print_file) :
        k < l => \/ print_file[k].filename[1] < print_file[l].filename[1]
                 \/ /\ print_file[k].filename = print_file[l].filename
                    /\ print_file[k].num[1] < print_file[l].num[1]

\* a step of the run does not go back to an earlier source and emits, if
\* it emits, one record or summary after those emitted so far, for the
\* source that is the current one before and after the step
EmitsForCurrentSource ==
    pc \in {"files", "next_line", "parse_line", "line_done"}
        => /\ data'.file >= data.file
           /\ print_file' # print_file
                 => /\ print_file' = Append(print_file, print_file'[Len(print_file')])
                    /\ print_file'[Len(print_file')].filename = <<data.file>>
                    /\ data'.file = data.file
           /\ sys_stdout' # sys_stdout
                 => /\ sys_stdout' = Append(sys_stdout, sys_stdout'[Len(sys_stdout')])
                    /\ sys_stdout'[Len(sys_stdout')].filename = data.file
                    /\ data'.file = data.file

\* C23: records are emitted in the order of the lines of their source,
\* and every record and summary of a source is emitted before the next
\* source is read
C23_RecordsInSourceOrder ==
    /\ [](pc \in {"start", "files", "next_line", "parse_line", "line_done", "done"}
            => InSourceOrder)
    /\ [][EmitsForCurrentSource]_vars

\* C23 witness: the run ended with two records of the first source, its
\* summary, and a record of the second source after them
C23_Witness ==
    /\ pc = "done"
    /\ Len(print_file) >= 3
    /\ print_file[1].filename = <<1>> /\ print_file[2].filename = <<1>>
    /\ print_file[3].filename = <<2>>
    /\ \E k \in 1..Len(sys_stdout) : sys_stdout[k].filename = 1

\* the regex type a value of -regextype names
RegexTypeOf(arg) ==
    IF arg = ArgPy THEN "PY" ELSE IF arg = ArgSed THEN "SED" ELSE "EGREP"

\* a round of main that reads the value of -regextype accepts py, sed
\* and egrep, which become the regex type, and rejects any other; a round
\* that reads the pattern of -regex gives it the regex type in force
RegexTypeStep ==
    /\ (pc = "find_main" /\ finder_parser.current_option = "REGEX_TYPE"
          /\ finder_parser.arg_idx < Len(finder_parser.cliargs))
          => IF finder_parser.cliargs[finder_parser.arg_idx + 1] \in {ArgPy, ArgSed, ArgEgrep}
             THEN /\ pc' = "find_main"
                  /\ finder_parser'.current_regex_type =
                         RegexTypeOf(finder_parser.cliargs[finder_parser.arg_idx + 1])
             ELSE pc' = "done" /\ result' = "ValueError"
    /\ (pc = "find_main" /\ finder_parser.current_option = "REGEX"
          /\ finder_parser.arg_idx < Len(finder_parser.cliargs))
          => /\ Len(finder_parser'.matchers) = Len(finder_parser.matchers) + 1
             /\ finder_parser'.matchers[Len(finder_parser'.matchers)].regex_type
                    = finder_parser.current_regex_type

\* C24: -regextype accepts exactly py, sed and egrep: each becomes the
\* regex type of the -regex tests after it, any other value is an error
C24_RegextypeAcceptsPySedEgrep == [][RegexTypeStep]_vars

\* C25: _parse_line ends for every line and every pattern list, the empty
\* pattern included
C25_ParseLineTerminates ==
    pc = "done" => result # "hang"

\* C26: the render of a highlighted line completes for every list of
\* match spans, zero-length spans of an empty regex match included: no
\* style instance is removed that is not active
C26_RenderOfHighlightedLineCompletes ==
    pc = "done" => result # "ValueError"

\* C27: execute leaves the pattern list of the Grep object as it was, and
\* a second execute() on the same object does not fail
C27_ExecuteLeavesPatternsUnchanged ==
    pc = "done"
        => /\ self_patterns = [i \in 1..Len(cfg.patterns) |-> Str(cfg.patterns[i])]
           /\ result \notin {"TypeError", "AttributeError"}

\* the offset in str.encode() of the character of index i of the text
ByteOffset(text, i) == Len(Encode(SubSeq(text, 1, i)))

\* the render of the formatted line of a record: str(AnsiString) after the
\* calls of apply_formatting of its highlights
RecordText(fl) == Format(ApplyHighlights(NewAnsiString(fl.s), fl.fmt, 1), <<>>).out

\* the indices of the characters that the rendered text shows in a style
StyledChars(out, n) == {i \in 0..(n - 1) : ActiveAfter(out, CharPos(out, i)) # {}}

\* the indices of the characters of the text whose bytes lie in a span of
\* the list
MatchedChars(text, spans) ==
    {i \in 0..(Len(text) - 1) :
        \E k \in 1..Len(spans) :
            spans[k][1] <= ByteOffset(text, i) /\ ByteOffset(text, i) < spans[k][2]}

\* C28: with color, the characters that the record of a selected line
\* shows in the style of a match are exactly the characters of the
\* matches, also when a multi-byte character precedes a match
C28_HighlightCoversMatchedCharacters ==
    (pc = "line_done" /\ data.color_enabled /\ ~cfg.invert_match /\ print_line
        /\ ~data.binary_detected)
        => StyledChars(RecordText(print_file[Len(print_file)].line),
                       Len(print_file[Len(print_file)].line.s))
               = MatchedChars(Decode(data.line), AllSpans(data.line, Len(self_patterns)))

\* C29: every output of a run, the records of the selected lines and the
\* summaries at the end of a source, is written to print_file, the sink
\* configured on the Grep object: nothing is written to sys.stdout
C29_AllOutputToPrintFile ==
    sys_stdout = <<>>

\* the lines of grep that the terminal shows before its k-th entry
ShownBefore(k) ==
    {search_main.stdout[j].n : j \in {h \in 1..(k - 1) : search_main.stdout[h].kind = "line"}}

\* C30: in search.main with a replace string, not silent, not a dry run
\* and with the grep tweaks, every line of grep is printed before the
\* prompt of the confirmation is shown, in every interleaving of the main
\* thread and the printer thread
C30_GrepLinesPrintedBeforePrompt ==
    (search_main.args.replace_string /\ ~search_main.args.silent
        /\ ~search_main.args.dry_run /\ ~search_main.args.no_grep_tweaks)
        => \A k \in 1..Len(search_main.stdout) :
               search_main.stdout[k].kind = "prompt"
                   => ShownBefore(k) = 1..search_main.grep_output

=============================================================================
